---- MODULE Spec2Model ----
(***************************************************************************)
(* Model of the insurance-illustration extraction and unification engine  *)
(* (extract_uv_pdf.py, extract_assomption_pdf.py, unify_extraction.py).   *)
(* A Python str is a sequence of characters, each written as a string: an *)
(* ASCII character as itself, any other by name ("e_acute", "U+2013").    *)
(* A Python value that may be None, a str or a float is a record tagged   *)
(* by its type.                                                            *)
(***************************************************************************)
EXTENDS Integers, Sequences, FiniteSets, TLC

VARIABLES
    value,      \* the argument handed to the amount functions
    numUV,      \* result of extract_uv_pdf.is_numeric_amount(value)
    numAS,      \* result of extract_assomption_pdf.is_numeric_amount(value)
    cur,        \* result of unify_extraction.parse_currency(value)
    dateParts,  \* how the date string was written (weekday, day, month, ...)
    dateIn,     \* the document date as extracted from the PDF
    dateOut,    \* result of parse_french_date(dateIn)
    reportDate, \* document_date of the UnifiedExtraction
    insParts,   \* how the insured line was written (number, dash, name, ...)
    insText,    \* the summary page's raw text
    insResult,  \* result of parse_all_insured_persons(insText)
    insUvResult, \* result of extract_uv_pdf.parse_insured_line on the UV writing
    colVariant, \* the extractor whose column table is used
    colWords,   \* the words of one line, in the order pdfplumber returned them
    colLine,    \* the line sorted by x0, its raw text and its ColumnRow
    colStep,    \* whether the line has been classified
    doc,        \* the PDF handed to an extractor
    pc,         \* where the extraction of doc stands
    lines,      \* sorted(lines.keys()): the reconstructed lines, each sorted by x0
    lineNo,     \* the line the scan is at
    line,       \* the line just scanned: its words, raw text, ColumnRow, branch
    insured_info,          \* UV: the insured person, None until parsed
    protections,           \* UV: the retained items
    current_protection,    \* UV: index in protections of the current item, 0 if None
    extraction_complete,   \* UV: a "Prime totale" line has been scanned
    insured_persons,       \* Assomption: the insured persons
    guarantees,            \* Assomption: the retained items
    in_table,              \* Assomption: the scan is inside the table
    total_annual_premium,
    total_monthly_premium,
    payment_interval,      \* Assomption only
    extraction, \* the SummaryExtraction an extractor returned, or None
    unified,    \* the UnifiedExtraction
    df,         \* what extract_and_unify_* returned: a DataFrame or None
    source,     \* the extractor the caller of extract_and_unify_* chose
    directory,     \* the PDF files of a directory, in the order of their paths
    requested,     \* the source argument of extract_and_unify / process_directory
    bpc,           \* where the driver stands
    pdf_files,     \* the paths as glob listed them, then sorted
    fileNo,        \* the file the driver is at
    alone,         \* what extract_and_unify gave for each file called on its own
    all_dfs,       \* process_directory: the DataFrames kept
    success_count,
    fail_count,
    combined,      \* what process_directory returned
    groupWords, \* the words handed to group_words_by_line
    groupLines, \* the lines it made of them
    groupStep,  \* whether it has run
    users,      \* the rows of the user sheet below the header, in sheet order
    authCall    \* the last call on the AuthManager and what it returned

amountVars == <<value, numUV, numAS, cur>>

dateVars == <<dateParts, dateIn, dateOut, reportDate>>

insVars == <<insParts, insText, insResult, insUvResult>>

colVars == <<colVariant, colWords, colLine, colStep>>

docVars ==
    <<doc, source, pc, lines, lineNo, line, insured_info, protections, current_protection,
      extraction_complete, insured_persons, guarantees, in_table,
      total_annual_premium, total_monthly_premium, payment_interval, extraction,
      unified, df>>

vars == <<value, numUV, numAS, cur, dateParts, dateIn, dateOut, reportDate,
          insParts, insText, insResult, colVariant, colWords, colLine, colStep,
          doc, pc, lines, lineNo, line, insured_info, protections,
          current_protection, extraction_complete, insured_persons, guarantees,
          in_table, total_annual_premium, total_monthly_premium, payment_interval,
          extraction, unified, df, source, directory, requested, bpc, pdf_files,
          fileNo, alone, all_dfs, success_count, fail_count, combined,
          groupWords, groupLines, groupStep, insUvResult, users, authCall>>

batchVars ==
    <<directory, requested, bpc, pdf_files, fileNo, alone, all_dfs, success_count,
      fail_count, combined>>

groupVars == <<groupWords, groupLines, groupStep>>

authVars == <<users, authCall>>

(***************************************************************************)
(* Python str primitives                                                   *)
(***************************************************************************)

Digits == {"0", "1", "2", "3", "4", "5", "6", "7", "8", "9"}

\* characters removed by str.strip() and skipped by float() and \s
Whitespace == {" ", "\t", "\n"}

UpperSeq == <<"A", "B", "C", "D", "E", "F", "G", "H", "I", "J", "K", "L", "M",
              "N", "O", "P", "Q", "R", "S", "T", "U", "V", "W", "X", "Y", "Z",
              "E_ACUTE", "U_CIRC", "A_CIRC">>

LowerSeq == <<"a", "b", "c", "d", "e", "f", "g", "h", "i", "j", "k", "l", "m",
              "n", "o", "p", "q", "r", "s", "t", "u", "v", "w", "x", "y", "z",
              "e_acute", "u_circ", "a_circ">>

LowerChar(c) ==
    IF \E i \in 1..Len(UpperSeq) : UpperSeq[i] = c
    THEN LowerSeq[CHOOSE i \in 1..Len(UpperSeq) : UpperSeq[i] = c]
    ELSE c

UpperChar(c) ==
    IF \E i \in 1..Len(LowerSeq) : LowerSeq[i] = c
    THEN UpperSeq[CHOOSE i \in 1..Len(LowerSeq) : LowerSeq[i] = c]
    ELSE c

\* str.lower() / str.upper()
Lower(s) == [i \in 1..Len(s) |-> LowerChar(s[i])]

Upper(s) == [i \in 1..Len(s) |-> UpperChar(s[i])]

\* s.replace(c, "") for a one-character c
RemoveChar(s, c) == SelectSeq(s, LAMBDA x : x # c)

\* s.replace(a, b) for one-character a and b
ReplaceChar(s, a, b) == [i \in 1..Len(s) |-> IF s[i] = a THEN b ELSE s[i]]

\* s.strip()
Strip(s) ==
    LET keep == {i \in 1..Len(s) : s[i] \notin Whitespace}
    IN  IF s = <<>> THEN <<>>
        ELSE IF s[1] \notin Whitespace /\ s[Len(s)] \notin Whitespace THEN s
        ELSE IF keep = {} THEN <<>>
        ELSE SubSeq(s, CHOOSE i \in keep : \A j \in keep : i <= j,
                       CHOOSE i \in keep : \A j \in keep : j <= i)

\* s.startswith(p)
StartsWith(s, p) == Len(p) <= Len(s) /\ SubSeq(s, 1, Len(p)) = p

\* s.endswith(p)
EndsWith(s, p) == Len(p) <= Len(s) /\ SubSeq(s, Len(s) - Len(p) + 1, Len(s)) = p

\* p in s
Contains(s, p) ==
    \/ p = <<>>
    \/ \E i \in 1..(Len(s) - Len(p) + 1) :
           s[i] = p[1] /\ SubSeq(s, i, i + Len(p) - 1) = p

DigitVal(c) ==
    CASE c = "0" -> 0 [] c = "1" -> 1 [] c = "2" -> 2 [] c = "3" -> 3
      [] c = "4" -> 4 [] c = "5" -> 5 [] c = "6" -> 6 [] c = "7" -> 7
      [] c = "8" -> 8 [] c = "9" -> 9

DigitChar(n) ==
    CASE n = 0 -> "0" [] n = 1 -> "1" [] n = 2 -> "2" [] n = 3 -> "3"
      [] n = 4 -> "4" [] n = 5 -> "5" [] n = 6 -> "6" [] n = 7 -> "7"
      [] n = 8 -> "8" [] n = 9 -> "9"

\* int(s) for a string of ASCII digits
RECURSIVE DigitsToNat(_)
DigitsToNat(s) ==
    IF s = <<>> THEN 0
    ELSE 10 * DigitsToNat(SubSeq(s, 1, Len(s) - 1)) + DigitVal(s[Len(s)])

\* str(n) for a natural number
RECURSIVE NatToDigits(_)
NatToDigits(n) ==
    IF n < 10 THEN <<DigitChar(n)>>
    ELSE Append(NatToDigits(n \div 10), DigitChar(n % 10))

RECURSIVE Pow10(_)
Pow10(k) == IF k = 0 THEN 1 ELSE 10 * Pow10(k - 1)

(***************************************************************************)
(* Python values: None and float                                           *)
(***************************************************************************)

None == [t |-> "None"]

\* a finite float m * 10^e (m carries no trailing zero), an infinity or NaN
Float(cls, neg, m, e) == [t |-> "float", cls |-> cls, neg |-> neg, m |-> m, e |-> e]

RECURSIVE Normalize(_, _, _)
Normalize(neg, m, e) ==
    IF m = 0 THEN Float("fin", FALSE, 0, 0)
    ELSE IF m % 10 = 0 THEN Normalize(neg, m \div 10, e + 1)
    ELSE Float("fin", neg, m, e)

Str(s) == [t |-> "str", s |-> s]

PyInt(n) == [t |-> "int", n |-> n]

Bool(b) == [t |-> "bool", b |-> b]

\* a result that no call has produced yet
Unset == [t |-> "unset"]

List(items) == [t |-> "list", items |-> items]

\* Python truth value of an argument: None, "" and 0 are false
Truthy(v) ==
    CASE v.t = "None" -> FALSE
      [] v.t = "str" -> v.s # <<>>
      [] v.t = "int" -> v.n # 0
      [] OTHER -> TRUE

\* float(s) raised ValueError
ValueError == [t |-> "ValueError"]

(***************************************************************************)
(* float(str): surrounding whitespace is ignored; an optional sign, then  *)
(* inf / infinity / nan in any case, or a decimal literal: digits with    *)
(* single underscores between digits, at most one point, an optional      *)
(* exponent.                                                               *)
(***************************************************************************)

IsDigitPart(r) ==
    /\ r # <<>>
    /\ r[1] \in Digits
    /\ r[Len(r)] \in Digits
    /\ \A i \in 1..Len(r) : r[i] \in Digits \cup {"_"}
    /\ \A i \in 1..(Len(r) - 1) : ~(r[i] = "_" /\ r[i + 1] = "_")

SignOf(r) == r # <<>> /\ r[1] = "-"

Unsigned(r) == IF r # <<>> /\ r[1] \in {"+", "-"} THEN Tail(r) ELSE r

\* the double nearest to m * 10^e: the largest finite double is
\* 1.797693134862315...e308, a decimal below 1e-324 rounds to 0.0 (the
\* reduced precision of subnormal doubles is not represented)
RoundToDouble(neg, m, e) ==
    LET f == Normalize(neg, m, e)
        d == Len(NatToDigits(f.m))
        order == d + f.e
    IN  IF f.m = 0 THEN f
        ELSE IF order > 309 THEN Float("inf", neg, 0, 0)
        ELSE IF order = 309 /\ d <= 9
                /\ f.m * Pow10(9 - d) > 179769313 THEN Float("inf", neg, 0, 0)
        ELSE IF order < -323 THEN Float("fin", FALSE, 0, 0)
        ELSE f

DecimalLiteral(neg, r) ==
    LET ePos == {i \in 1..Len(r) : r[i] \in {"e", "E"}}
        eAt == IF ePos = {} THEN Len(r) + 1
               ELSE CHOOSE i \in ePos : \A j \in ePos : i <= j
        mant == SubSeq(r, 1, eAt - 1)
        expo == SubSeq(r, eAt + 1, Len(r))
        dots == {i \in 1..Len(mant) : mant[i] = "."}
        dotAt == IF dots = {} THEN Len(mant) + 1 ELSE CHOOSE i \in dots : TRUE
        ip == SubSeq(mant, 1, dotAt - 1)
        fp == SubSeq(mant, dotAt + 1, Len(mant))
        fdigits == RemoveChar(fp, "_")
        expOK == ePos = {} \/ IsDigitPart(Unsigned(expo))
        mantOK == /\ Cardinality(dots) <= 1
                  /\ ip = <<>> \/ IsDigitPart(ip)
                  /\ fp = <<>> \/ IsDigitPart(fp)
                  /\ ip # <<>> \/ fp # <<>>
        ev == IF ePos = {} THEN 0
              ELSE (IF SignOf(expo) THEN -1 ELSE 1)
                     * DigitsToNat(RemoveChar(Unsigned(expo), "_"))
    IN  IF mantOK /\ expOK
        THEN RoundToDouble(neg, DigitsToNat(RemoveChar(ip, "_") \o fdigits),
                           ev - Len(fdigits))
        ELSE ValueError

PyFloat(s) ==
    LET t == Strip(s)
        neg == SignOf(t)
        r == Unsigned(t)
        low == Lower(r)
    IN  IF low \in {<<"i", "n", "f">>, <<"i", "n", "f", "i", "n", "i", "t", "y">>}
        THEN Float("inf", neg, 0, 0)
        ELSE IF low = <<"n", "a", "n">> THEN Float("nan", FALSE, 0, 0)
        ELSE DecimalLiteral(neg, r)

(***************************************************************************)
(* Field normalizer: amount classification and currency parsing            *)
(***************************************************************************)

\* the string left after value.replace(" ", "").replace("$", "")
\*                           .replace(",", ".").strip()
uv_cleaned(s) == Strip(ReplaceChar(RemoveChar(RemoveChar(s, " "), "$"), ",", "."))

\* is_numeric_amount without the comma normalisation
uv_is_numeric_amount_keeps_comma(v) ==
    IF ~Truthy(v) THEN FALSE
    ELSE LET cleaned == Strip(RemoveChar(RemoveChar(v.s, " "), "$"))
         IN  cleaned # <<>> /\ PyFloat(cleaned) # ValueError

\* extract_uv_pdf.is_numeric_amount
uv_is_numeric_amount(v) ==
    IF ~Truthy(v) THEN FALSE
    ELSE IF uv_cleaned(v.s) = <<>> THEN FALSE
    ELSE PyFloat(uv_cleaned(v.s)) # ValueError

\* extract_assomption_pdf.is_numeric_amount:
\* "$" in value and bool(re.search(r"\d", value))
assomption_is_numeric_amount(v) ==
    IF ~Truthy(v) THEN FALSE
    ELSE /\ \E i \in 1..Len(v.s) : v.s[i] = "$"
         /\ \E i \in 1..Len(v.s) : v.s[i] \in Digits

\* parse_currency reading the comma as a thousands separator
parse_currency_drops_comma(v) ==
    IF ~Truthy(v) \/ v.t # "str" THEN None
    ELSE LET cleaned == Strip(RemoveChar(RemoveChar(RemoveChar(v.s, "$"), " "), ","))
         IN  IF cleaned = <<>> \/ PyFloat(cleaned) = ValueError THEN None
             ELSE PyFloat(cleaned)

\* unify_extraction.parse_currency
parse_currency(v) ==
    IF ~Truthy(v) \/ v.t # "str" THEN None
    ELSE LET cleaned == Strip(RemoveChar(RemoveChar(v.s, "$"), " "))
             dotted == IF \E i \in 1..Len(cleaned) : cleaned[i] = ","
                       THEN ReplaceChar(cleaned, ",", ".")
                       ELSE cleaned
         IN  IF cleaned = <<>> THEN None
             ELSE IF PyFloat(dotted) = ValueError THEN None
             ELSE PyFloat(dotted)

(***************************************************************************)
(* Field normalizer: French dates                                          *)
(***************************************************************************)

\* s.split(): the maximal runs of non-whitespace characters
RECURSIVE Split(_)
Split(s) ==
    LET t == Strip(s)
        ws == {i \in 1..Len(t) : t[i] \in Whitespace}
        cut == IF ws = {} THEN Len(t) + 1
               ELSE CHOOSE i \in ws : \A j \in ws : i <= j
    IN  IF t = <<>> THEN <<>>
        ELSE <<SubSeq(t, 1, cut - 1)>> \o Split(SubSeq(t, cut, Len(t)))

\* sep.join(parts)
RECURSIVE Join(_, _)
Join(sep, parts) ==
    IF parts = <<>> THEN <<>>
    ELSE IF Len(parts) = 1 THEN parts[1]
    ELSE parts[1] \o sep \o Join(sep, Tail(parts))

\* int(s): surrounding whitespace, an optional sign, digits with single
\* underscores between them; anything else raises ValueError
PyIntOf(s) ==
    LET t == Strip(s)
    IN  IF IsDigitPart(Unsigned(t))
        THEN PyInt((IF SignOf(t) THEN -1 ELSE 1)
                     * DigitsToNat(RemoveChar(Unsigned(t), "_")))
        ELSE ValueError

\* f"{n:0{width}d}"
RECURSIVE ZeroPad(_, _)
ZeroPad(digits, width) ==
    IF Len(digits) >= width THEN digits ELSE ZeroPad(<<"0">> \o digits, width)

FormatInt(n, width) ==
    IF n < 0 THEN <<"-">> \o ZeroPad(NatToDigits(-n), width - 1)
    ELSE ZeroPad(NatToDigits(n), width)

FRENCH_MONTHS ==
    <<[name |-> <<"j", "a", "n", "v", "i", "e", "r">>, num |-> 1],
      [name |-> <<"f", "e_acute", "v", "r", "i", "e", "r">>, num |-> 2],
      [name |-> <<"f", "e", "v", "r", "i", "e", "r">>, num |-> 2],
      [name |-> <<"m", "a", "r", "s">>, num |-> 3],
      [name |-> <<"a", "v", "r", "i", "l">>, num |-> 4],
      [name |-> <<"m", "a", "i">>, num |-> 5],
      [name |-> <<"j", "u", "i", "n">>, num |-> 6],
      [name |-> <<"j", "u", "i", "l", "l", "e", "t">>, num |-> 7],
      [name |-> <<"a", "o", "u_circ", "t">>, num |-> 8],
      [name |-> <<"a", "o", "u", "t">>, num |-> 8],
      [name |-> <<"s", "e", "p", "t", "e", "m", "b", "r", "e">>, num |-> 9],
      [name |-> <<"o", "c", "t", "o", "b", "r", "e">>, num |-> 10],
      [name |-> <<"n", "o", "v", "e", "m", "b", "r", "e">>, num |-> 11],
      [name |-> <<"d", "e_acute", "c", "e", "m", "b", "r", "e">>, num |-> 12],
      [name |-> <<"d", "e", "c", "e", "m", "b", "r", "e">>, num |-> 12]>>

FRENCH_DAYS ==
    <<<<"l", "u", "n", "d", "i">>,
      <<"m", "a", "r", "d", "i">>,
      <<"m", "e", "r", "c", "r", "e", "d", "i">>,
      <<"j", "e", "u", "d", "i">>,
      <<"v", "e", "n", "d", "r", "e", "d", "i">>,
      <<"s", "a", "m", "e", "d", "i">>,
      <<"d", "i", "m", "a", "n", "c", "h", "e">>>>

\* parse_french_date that neither lowercases nor strips the weekday name
parse_french_date_keeps_case(v) ==
    IF ~Truthy(v) \/ v.t # "str" THEN None
    ELSE LET parts == Split(RemoveChar(v.s, ","))
             hits == IF Len(parts) >= 3
                     THEN {i \in 1..Len(FRENCH_MONTHS) :
                              FRENCH_MONTHS[i].name = parts[2]}
                     ELSE {}
         IN  IF hits = {} \/ PyIntOf(parts[1]) = ValueError
                \/ PyIntOf(parts[3]) = ValueError
             THEN None
             ELSE Str(FormatInt(PyIntOf(parts[3]).n, 4) \o <<"-">>
                      \o FormatInt(FRENCH_MONTHS[CHOOSE i \in hits : TRUE].num, 2)
                      \o <<"-">> \o FormatInt(PyIntOf(parts[1]).n, 2))

\* unify_extraction.parse_french_date
parse_french_date(v) ==
    IF ~Truthy(v) \/ v.t # "str" THEN None
    ELSE LET cleaned0 == Strip(Lower(v.s))
             dayHits == {i \in 1..Len(FRENCH_DAYS) :
                            StartsWith(cleaned0, FRENCH_DAYS[i])}
             cleaned1 ==
                 IF dayHits = {} THEN cleaned0
                 ELSE LET d == CHOOSE i \in dayHits : \A j \in dayHits : i <= j
                      IN  Strip(SubSeq(cleaned0, Len(FRENCH_DAYS[d]) + 1,
                                       Len(cleaned0)))
             cleaned2 == Strip(RemoveChar(cleaned1, ","))
             cleaned3 == Join(<<" ">>, Split(cleaned2))
             parts == Split(cleaned3)
             day == PyIntOf(parts[1])
             year == PyIntOf(parts[3])
             hits == {i \in 1..Len(FRENCH_MONTHS) :
                         FRENCH_MONTHS[i].name = Lower(parts[2])}
         IN  IF Len(parts) < 3 THEN None
             ELSE IF day = ValueError \/ year = ValueError THEN None
             ELSE IF hits = {} THEN None
             ELSE Str(FormatInt(year.n, 4) \o <<"-">>
                      \o FormatInt(FRENCH_MONTHS[CHOOSE i \in hits : TRUE].num, 2)
                      \o <<"-">> \o FormatInt(day.n, 2))

\* parse_french_date(extraction.document_date) or extraction.document_date
formatted_date(document_date) ==
    IF Truthy(parse_french_date(document_date))
    THEN parse_french_date(document_date)
    ELSE document_date

(***************************************************************************)
(* Assomption insured persons: parse_all_insured_persons                   *)
(***************************************************************************)

\* [\u2010-\u2015\-]: hyphen, non-breaking hyphen, figure dash, en-dash,
\* em-dash, horizontal bar and the ASCII hyphen-minus
DashClass == {"U+2010", "U+2011", "U+2012", "U+2013", "U+2014", "U+2015", "-"}

\* the class without the em-dash
DashClassNoEmDash == {"U+2010", "U+2011", "U+2012", "U+2013", "U+2015", "-"}

\* first index from i on whose character is not in S (Len + 1 if none)
RunEnd(text, i, S) ==
    IF i > Len(text) THEN Len(text) + 1
    ELSE CHOOSE j \in i..(Len(text) + 1) :
             /\ \A k \in i..(j - 1) : text[k] \in S
             /\ j = Len(text) + 1 \/ text[j] \notin S

\* whether the literal lit stands at index i
LitAt(text, i, lit) ==
    i + Len(lit) - 1 <= Len(text) /\ SubSeq(text, i, i + Len(lit) - 1) = lit

NoMatch == [ok |-> FALSE]

\* (Non[\u2010-\u2015\-]fumeur|Fumeur|Non-fumeur) at index i: the matched
\* text, <<>> if none
SmokerAt(text, i, dashes) ==
    IF /\ LitAt(text, i, <<"N", "o", "n">>)
       /\ i + 3 <= Len(text)
       /\ text[i + 3] \in dashes
       /\ LitAt(text, i + 4, <<"f", "u", "m", "e", "u", "r">>)
    THEN SubSeq(text, i, i + 9)
    ELSE IF LitAt(text, i, <<"F", "u", "m", "e", "u", "r">>)
    THEN SubSeq(text, i, i + 5)
    ELSE <<>>

\* (Homme|Femme) at index i
SexAt(text, i) ==
    IF LitAt(text, i, <<"H", "o", "m", "m", "e">>) THEN <<"H", "o", "m", "m", "e">>
    ELSE IF LitAt(text, i, <<"F", "e", "m", "m", "e">>) THEN <<"F", "e", "m", "m", "e">>
    ELSE <<>>

\* the match of the insured pattern that starts at index i, with the dash
\* class given:
\*   (\d+)\s*[dash]\s*([^,]+),\s*[aA\u00e2]ge\s*(\d+),\s*(Homme|Femme)\s*,\s*
\*   (Non[dash]fumeur|Fumeur|Non-fumeur)
\* Every quantifier is greedy and no shorter repetition can lead to a match,
\* except \s* before ([^,]+), which gives one whitespace character back when
\* the name would otherwise be empty.
InsuredMatchAt(text, i, dashes) ==
    LET numEnd == RunEnd(text, i, Digits)
        dashAt == RunEnd(text, numEnd, Whitespace)
        nameLo == RunEnd(text, dashAt + 1, Whitespace)
        comma1 == RunEnd(text, dashAt + 1, {c \in {text[j] : j \in 1..Len(text)} : c # ","})
        nameFrom == IF nameLo < comma1 THEN nameLo ELSE comma1 - 1
        ageKw == RunEnd(text, comma1 + 1, Whitespace)
        ageLo == RunEnd(text, ageKw + 3, Whitespace)
        ageEnd == RunEnd(text, ageLo, Digits)
        sexLo == RunEnd(text, ageEnd + 1, Whitespace)
        sex == SexAt(text, sexLo)
        comma3 == RunEnd(text, sexLo + Len(sex), Whitespace)
        smokerLo == RunEnd(text, comma3 + 1, Whitespace)
        smoker == SmokerAt(text, smokerLo, dashes)
    IN  IF /\ numEnd > i
           /\ dashAt <= Len(text) /\ text[dashAt] \in dashes
           /\ comma1 <= Len(text)
           /\ nameFrom > dashAt
           /\ ageKw <= Len(text) /\ text[ageKw] \in {"a", "A", "a_circ"}
           /\ LitAt(text, ageKw + 1, <<"g", "e">>)
           /\ ageEnd > ageLo
           /\ ageEnd <= Len(text) /\ text[ageEnd] = ","
           /\ sex # <<>>
           /\ comma3 <= Len(text) /\ text[comma3] = ","
           /\ smoker # <<>>
        THEN [ok |-> TRUE,
              number |-> SubSeq(text, i, numEnd - 1),
              name |-> SubSeq(text, nameFrom, comma1 - 1),
              age |-> SubSeq(text, ageLo, ageEnd - 1),
              sex |-> sex,
              smoker |-> smoker,
              next |-> smokerLo + Len(smoker)]
        ELSE NoMatch

\* extract_assomption_pdf.parse_single_insured
parse_single_insured(match) ==
    LET full_name == Strip(match.name)
        name_parts == Split(full_name)
        status == Lower(match.smoker)
    IN  [number |-> match.number,
         last_name |-> IF Len(name_parts) >= 2 THEN name_parts[Len(name_parts)]
                       ELSE full_name,
         first_name |-> IF Len(name_parts) >= 2
                        THEN Join(<<" ">>, SubSeq(name_parts, 1, Len(name_parts) - 1))
                        ELSE <<>>,
         sex |-> match.sex,
         age |-> PyIntOf(match.age).n,
         smoker |-> /\ Contains(status, <<"f", "u", "m", "e", "u", "r">>)
                    /\ ~Contains(status, <<"n", "o", "n">>)]

\* re.finditer(pattern, text) from index i on, each match parsed: the
\* leftmost match (it starts at a digit), then the matches after its end
RECURSIVE InsuredFrom(_, _, _)
InsuredFrom(text, i, dashes) ==
    LET starts == {j \in i..Len(text) :
                      text[j] \in Digits /\ InsuredMatchAt(text, j, dashes).ok}
    IN  IF starts = {} THEN <<>>
        ELSE LET m == InsuredMatchAt(text, CHOOSE j \in starts : \A k \in starts : j <= k,
                                     dashes)
             IN  <<parse_single_insured(m)>> \o InsuredFrom(text, m.next, dashes)

\* the dash class of the pattern
PatternDashes == DashClass

\* extract_assomption_pdf.parse_all_insured_persons
parse_all_insured_persons(text) == InsuredFrom(text, 1, PatternDashes)

(***************************************************************************)
(* Column classifier: extract_row_by_columns                               *)
(***************************************************************************)

\* extract_uv_pdf.COLUMN_BOUNDARIES, in dict order
UV_COLUMN_BOUNDARIES ==
    <<[col |-> "description", x_min |-> 0, x_max |-> 280],
      [col |-> "insurance_amount", x_min |-> 280, x_max |-> 400],
      [col |-> "annual_premium", x_min |-> 400, x_max |-> 510],
      [col |-> "monthly_premium", x_min |-> 510, x_max |-> 600]>>

\* extract_assomption_pdf.COLUMN_BOUNDARIES, in dict order
ASSOMPTION_COLUMN_BOUNDARIES ==
    <<[col |-> "description", x_min |-> 0, x_max |-> 350],
      [col |-> "capital_assure", x_min |-> 350, x_max |-> 420],
      [col |-> "duree_paiement", x_min |-> 420, x_max |-> 520],
      [col |-> "prime_annuelle", x_min |-> 520, x_max |-> 600]>>

ColumnTable(variant) ==
    IF variant = "UV" THEN UV_COLUMN_BOUNDARIES ELSE ASSOMPTION_COLUMN_BOUNDARIES

\* sorted(words, key=lambda w: w["x0"]): a stable sort
RECURSIVE SortByX(_)
SortByX(words) ==
    IF words = <<>> THEN <<>>
    ELSE LET rest == SortByX(SubSeq(words, 1, Len(words) - 1))
             w == words[Len(words)]
             keep == {i \in 1..Len(rest) : rest[i].x0 <= w.x0}
         IN  SubSeq(rest, 1, Cardinality(keep)) \o <<w>>
             \o SubSeq(rest, Cardinality(keep) + 1, Len(rest))

\* " ".join([w["text"] for w in line_words])
RECURSIVE JoinWords(_)
JoinWords(words) ==
    IF words = <<>> THEN <<>>
    ELSE IF Len(words) = 1 THEN words[1].text
    ELSE words[1].text \o <<" ">> \o JoinWords(Tail(words))

\* the first column whose range holds x, the upper bound included
WordColumnClosed(x, table) ==
    LET hits == {k \in 1..Len(table) : table[k].x_min <= x /\ x <= table[k].x_max}
    IN  IF hits = {} THEN 0 ELSE CHOOSE k \in hits : \A j \in hits : k <= j

\* the column a word is appended to: the first whose range holds its x0
\* (x_min <= x < x_max), 0 if none
WordColumn(x, table) ==
    LET hits == {k \in 1..Len(table) : table[k].x_min <= x /\ x < table[k].x_max}
    IN  IF hits = {} THEN 0 ELSE CHOOSE k \in hits : \A j \in hits : k <= j

\* extract_row_by_columns: column name -> joined text
extract_row_by_columns(line_words, table) ==
    [c \in {table[k].col : k \in 1..Len(table)} |->
        LET k == CHOOSE j \in 1..Len(table) : table[j].col = c
        IN  JoinWords(SelectSeq(line_words, LAMBDA w : WordColumn(w.x0, table) = k))]

(***************************************************************************)
(* Line reconstructor: group_words_by_line                                 *)
(***************************************************************************)

\* round(top, 0) of a top given in tenths: to the nearest integer, a tie
\* going to the even one
RoundTop(top10) ==
    LET q == top10 \div 10
        r == top10 % 10
    IN  IF r < 5 THEN q
        ELSE IF r > 5 THEN q + 1
        ELSE IF q % 2 = 0 THEN q ELSE q + 1

Abs(n) == IF n < 0 THEN -n ELSE n

\* the default tolerance of group_words_by_line
Tolerance == 3

\* the word joining the last of the lines whose key is within the tolerance
GroupWordLatest(buckets, word) ==
    LET y_key == RoundTop(word.top)
        near == {b \in 1..Len(buckets) : Abs(buckets[b].key - y_key) <= Tolerance}
    IN  IF near # {}
        THEN LET b == CHOOSE b \in near : \A c \in near : b >= c
             IN  [buckets EXCEPT ![b].words = Append(@, word)]
        ELSE Append(buckets, [key |-> y_key, words |-> <<word>>])

\* the body of "for word in words": the word joins the first line whose key
\* is within the tolerance of its rounded top, or opens a line
GroupWord(buckets, word) ==
    LET y_key == RoundTop(word.top)
        near == {b \in 1..Len(buckets) : Abs(buckets[b].key - y_key) <= Tolerance}
    IN  IF near # {}
        THEN LET b == CHOOSE b \in near : \A c \in near : b <= c
             IN  [buckets EXCEPT ![b].words = Append(@, word)]
        ELSE Append(buckets, [key |-> y_key, words |-> <<word>>])

\* the loop from word i on, the lines made so far in buckets (a line holds
\* a word at least: there are never more lines than words)
RECURSIVE GroupFrom(_, _, _)
GroupFrom(buckets, words, i) ==
    IF i > Len(words) \/ Len(buckets) > Len(words) THEN buckets
    ELSE GroupFrom(GroupWord(buckets, words[i]), words, i + 1)

\* group_words_by_line: the buckets in creation order, each with its key
group_words_by_line(words) == GroupFrom(<<>>, words, 1)

\* for y in sorted(lines.keys()): the buckets by ascending key, each line
\* sorted by x0
RECURSIVE SortedLines(_)
SortedLines(buckets) ==
    IF buckets = <<>> THEN <<>>
    ELSE LET lo == CHOOSE b \in 1..Len(buckets) :
                       \A c \in 1..Len(buckets) : buckets[b].key <= buckets[c].key
         IN  <<SortByX(buckets[lo].words)>>
             \o SortedLines(SubSeq(buckets, 1, lo - 1)
                             \o SubSeq(buckets, lo + 1, Len(buckets)))

(***************************************************************************)
(* UV extractor: functions                                                 *)
(***************************************************************************)

\* "{:,}".format(n).replace(",", " "): the digits in groups of three
RECURSIVE GroupThousands(_)
GroupThousands(digits) ==
    IF Len(digits) <= 3 THEN digits
    ELSE GroupThousands(SubSeq(digits, 1, Len(digits) - 3)) \o <<" ">>
         \o SubSeq(digits, Len(digits) - 2, Len(digits))

\* extract_uv_pdf.normalize_amount
normalize_amount(amount) ==
    LET cleaned == Strip(RemoveChar(amount, " "))
        num_part == SubSeq(cleaned, 1, Len(cleaned) - 1)
    IN  IF amount = <<>> THEN <<>>
        ELSE IF cleaned = <<"V", "o", "i", "r", "l", "a", "d", "e", "s", "c", "r", "i", "p", "t", "i", "o", "n">>
        THEN <<"V", "o", "i", "r", " ", "l", "a", " ", "d", "e", "s", "c", "r", "i", "p", "t", "i", "o", "n">>
        ELSE IF /\ EndsWith(cleaned, <<"$">>)
                /\ num_part # <<>>
                /\ \A i \in 1..Len(num_part) : num_part[i] \in Digits
        THEN GroupThousands(NatToDigits(DigitsToNat(num_part))) \o <<" ", "$">>
        ELSE Strip(amount)

\* \d{4}-\d{2}-\d{2} at index i
DateAt(text, i) ==
    /\ i + 9 <= Len(text)
    /\ \A k \in {0, 1, 2, 3, 5, 6, 8, 9} : text[i + k] \in Digits
    /\ text[i + 4] = "-"
    /\ text[i + 7] = "-"

\* re.search(r"\d{4}-\d{2}-\d{2}", text)
HasDate(text) == \E i \in 1..Len(text) : DateAt(text, i)

\* [A-Z...\s-]: upper-case letters, whitespace and the hyphen
UvNameClass == {UpperSeq[i] : i \in 1..Len(UpperSeq)} \cup Whitespace \cup {"-"}

\* extract_uv_pdf.parse_insured_line: re.match of
\*   ^([A-Z...\s-]+),\s*(Homme|Femme),\s*(\d{4}-\d{2}-\d{2}),\s*(\d+)\s*an\(s\),\s*
\*   (non-fumeur|fumeur)
\* on the stripped line; None when it does not match
uv_parse_insured_line(text) ==
    LET t == Strip(text)
        nameEnd == RunEnd(t, 1, UvNameClass)
        sexLo == RunEnd(t, nameEnd + 1, Whitespace)
        sex == SexAt(t, sexLo)
        dateLo == RunEnd(t, sexLo + Len(sex) + 1, Whitespace)
        ageLo == RunEnd(t, dateLo + 11, Whitespace)
        ageEnd == RunEnd(t, ageLo, Digits)
        ansLo == RunEnd(t, ageEnd, Whitespace)
        smokerLo == RunEnd(t, ansLo + 6, Whitespace)
        smoker == IF LitAt(t, smokerLo, <<"n", "o", "n", "-", "f", "u", "m", "e", "u", "r">>)
                  THEN <<"n", "o", "n", "-", "f", "u", "m", "e", "u", "r">>
                  ELSE IF LitAt(t, smokerLo, <<"f", "u", "m", "e", "u", "r">>)
                  THEN <<"f", "u", "m", "e", "u", "r">>
                  ELSE <<>>
        full_name == Strip(SubSeq(t, 1, nameEnd - 1))
        parts == Split(full_name)
    IN  IF /\ nameEnd > 1
           /\ nameEnd <= Len(t) /\ t[nameEnd] = ","
           /\ sex # <<>>
           /\ LitAt(t, sexLo + Len(sex), <<",">>)
           /\ DateAt(t, dateLo)
           /\ LitAt(t, dateLo + 10, <<",">>)
           /\ ageEnd > ageLo
           /\ LitAt(t, ansLo, <<"a", "n", "(", "s", ")", ",">>)
           /\ smoker # <<>>
        THEN [t |-> "InsuredInfo",
              last_name |-> IF Len(parts) >= 2 THEN parts[Len(parts)] ELSE full_name,
              first_name |-> IF Len(parts) >= 2
                             THEN Join(<<" ">>, SubSeq(parts, 1, Len(parts) - 1))
                             ELSE <<>>,
              sex |-> sex,
              birth_date |-> SubSeq(t, dateLo, dateLo + 9),
              age |-> PyIntOf(SubSeq(t, ageLo, ageEnd - 1)).n,
              smoker |-> smoker = <<"f", "u", "m", "e", "u", "r">>]
        ELSE None

(***************************************************************************)
(* Documents: the page pdfplumber returns for a PDF                        *)
(***************************************************************************)

W(text, x0) == [text |-> text, x0 |-> x0]

\* the lines of a UV illustration
UvLine(name) ==
    CASE name = "head" ->
        <<W(<<"S", "O", "M", "M", "A", "I", "R", "E">>, 40),
          W(<<"D", "E", "S">>, 110),
          W(<<"P", "R", "O", "T", "E", "C", "T", "I", "O", "N", "S">>, 140),
          W(<<"E", "T">>, 230),
          W(<<"D", "E", "S">>, 250),
          W(<<"P", "R", "I", "M", "E", "S">>, 270)>>
      [] name = "insured" ->
        <<W(<<"A", "L">>, 40),
          W(<<"D", "E">>, 60),
          W(<<"B", "O", ",">>, 80),
          W(<<"H", "o", "m", "m", "e", ",">>, 110),
          W(<<"1", "9", "9", "9", "-", "1", "1", "-", "3", "0", ",">>, 160),
          W(<<"2", "6">>, 230),
          W(<<"a", "n", "(", "s", ")", ",">>, 245),
          W(<<"n", "o", "n", "-", "f", "u", "m", "e", "u", "r">>, 280)>>
      [] name = "badinsured" ->
        <<W(<<"A", "l">>, 40),
          W(<<"B", "o", ",">>, 60),
          W(<<"H", "o", "m", "m", "e", ",">>, 90),
          W(<<"1", "9", "9", "9", "-", "1", "1", "-", "3", "0", ",">>, 140),
          W(<<"2", "6">>, 210),
          W(<<"a", "n", "(", "s", ")", ",">>, 225),
          W(<<"f", "u", "m", "e", "u", "r">>, 260)>>
      [] name = "assind" ->
        <<W(<<"A", "s", "s", "u", "r", "a", "n", "c", "e">>, 40),
          W(<<"i", "n", "d", "i", "v", "i", "d", "u", "e", "l", "l", "e">>, 100)>>
      [] name = "item" ->
        <<W(<<"V", "i", "e">>, 40),
          W(<<"5", "0", "0", "0", "0", "$">>, 300),
          W(<<"5", "5", "6", ",", "5", "0">>, 420),
          W(<<"$">>, 460),
          W(<<"4", "6", ",", "3", "8">>, 520),
          W(<<"$">>, 560)>>
      [] name = "incl" ->
        <<W(<<"A", "v", "e", "n", "a", "n", "t">>, 40),
          W(<<"I", "n", "c", "l", "u", "s", "e">>, 300),
          W(<<"1", "2", ",", "8", "7", "$">>, 420),
          W(<<"1", ",", "0", "7", "$">>, 520)>>
      [] name = "place" ->
        <<W(<<"E", "x", "o">>, 40),
          W(<<"V", "o", "i", "r">>, 300),
          W(<<"l", "a">>, 325),
          W(<<"d", "e", "s", "c", "r", "i", "p", "t", "i", "o", "n">>, 340),
          W(<<"I", "n", "c", "l", "u", "s", "e">>, 420)>>
      [] name = "cont" ->
        <<W(<<"d", "e", "t", "t", "e">>, 40)>>
      [] name = "detail" ->
        <<W(<<"(", "P", "r", "i", "m", "e", "s">>, 40),
          W(<<"p", "a", "y", "a", "b", "l", "e", "s", ")">>, 90)>>
      [] name = "total" ->
        <<W(<<"P", "r", "i", "m", "e">>, 40),
          W(<<"t", "o", "t", "a", "l", "e">>, 80),
          W(<<"5", "6", "9", ",", "3", "7">>, 420),
          W(<<"$">>, 460),
          W(<<"4", "7", ",", "4", "5">>, 520),
          W(<<"$">>, 560)>>
      [] name = "out" ->
        <<W(<<"P", "r", "i", "m", "e">>, 610),
          W(<<"t", "o", "t", "a", "l", "e">>, 650)>>

\* the lines of an Assomption illustration
AssomptionLine(name) ==
    CASE name = "sg" ->
        <<W(<<"S", "o", "m", "m", "a", "i", "r", "e">>, 40),
          W(<<"d", "e", "s">>, 100),
          W(<<"g", "a", "r", "a", "n", "t", "i", "e", "s">>, 125)>>
      [] name = "pa" ->
        <<W(<<"P", "e", "r", "s", "o", "n", "n", "e">>, 40),
          W(<<"a">>, 95),
          W(<<"a", "s", "s", "u", "r", "e", "r">>, 105)>>
      [] name = "p1" ->
        <<W(<<"1">>, 40),
          W(<<"-">>, 50),
          W(<<"A", "l">>, 60),
          W(<<"B", "o", ",">>, 80),
          W(<<"a", "g", "e">>, 110),
          W(<<"2", "6", ",">>, 135),
          W(<<"H", "o", "m", "m", "e">>, 160),
          W(<<",">>, 195),
          W(<<"N", "o", "n", "-", "f", "u", "m", "e", "u", "r">>, 205)>>
      [] name = "p2" ->
        <<W(<<"2">>, 40),
          W(<<"U+2013">>, 50),
          W(<<"C", "y">>, 60),
          W(<<"D", "e">>, 80),
          W(<<"F", "i", ",">>, 100),
          W(<<"a_circ", "g", "e">>, 130),
          W(<<"3", "1", ",">>, 155),
          W(<<"F", "e", "m", "m", "e">>, 180),
          W(<<",">>, 215),
          W(<<"F", "u", "m", "e", "u", "r">>, 225)>>
      [] name = "police" ->
        <<W(<<"P", "o", "l", "i", "c", "e">>, 40),
          W(<<"V", "i", "e">>, 85)>>
      [] name = "header" ->
        <<W(<<"A", "s", "s", "u", "r", "a", "n", "c", "e">>, 40),
          W(<<"d", "e", "m", "a", "n", "d", "e", "e">>, 100),
          W(<<"C", "a", "p", "i", "t", "a", "l">>, 350),
          W(<<"a", "s", "s", "u", "r", "e">>, 390)>>
      [] name = "item" ->
        <<W(<<"V", "i", "e">>, 40),
          W(<<"e", "n", "t", "i", "e", "r", "e">>, 65),
          W(<<"2", "5">>, 350),
          W(<<"0", "0", "0", ",", "0", "0">>, 365),
          W(<<"$">>, 405),
          W(<<"7", "4">>, 430),
          W(<<"a", "n", "s">>, 445),
          W(<<"3", "2", "5", ",", "2", "5">>, 530),
          W(<<"$">>, 570)>>
      [] name = "prime" ->
        <<W(<<"R", "e", "n", "t", "e">>, 40),
          W(<<"1", "2", ",", "8", "7", "$">>, 530)>>
      [] name = "english" ->
        <<W(<<"F", "r", "a", "i", "s">>, 40),
          W(<<"1", ",", "0", "0", "0", ".", "0", "0">>, 350),
          W(<<"$">>, 400)>>
      [] name = "bare" ->
        <<W(<<"O", "p", "t", "i", "o", "n">>, 40),
          W(<<"5", "0", "0", "0">>, 350)>>
      [] name = "note" ->
        <<W(<<"V", "o", "i", "r">>, 40),
          W(<<"n", "o", "t", "e", "s">>, 70),
          W(<<"p", ".", "2">>, 610)>>
      [] name = "total" ->
        <<W(<<"P", "r", "i", "m", "e">>, 40),
          W(<<"a", "n", "n", "u", "e", "l", "l", "e">>, 80),
          W(<<"t", "o", "t", "a", "l", "e">>, 130),
          W(<<"3", "2", "5", ",", "2", "5">>, 530),
          W(<<"$">>, 570)>>
      [] name = "sommaire" ->
        <<W(<<"S", "o", "m", "m", "a", "i", "r", "e">>, 40)>>
      [] name = "mens" ->
        <<W(<<"P", "r", "i", "m", "e">>, 40),
          W(<<"t", "o", "t", "a", "l", "e">>, 80),
          W(<<"2", "8", ",", "1", "1">>, 530),
          W(<<"$">>, 570)>>
      [] name = "interval" ->
        <<W(<<"I", "n", "t", "e", "r", "v", "a", "l", "l", "e">>, 40),
          W(<<"d", "e">>, 100),
          W(<<"p", "a", "i", "e", "m", "e", "n", "t">>, 115),
          W(<<"M", "e", "n", "s", "u", "e", "l">>, 170)>>
      [] name = "out" ->
        <<W(<<"S", "o", "m", "m", "a", "i", "r", "e">>, 610)>>

\* most lines of the body of a page (after the heading and insured lines)
MaxBodyLines == 2

\* most lines of the body of a page of a document without a date
MaxUndatedLines == 1

UvBodyLines == {"assind", "item", "incl", "place", "cont", "detail", "total", "out"}

AssomptionBodyLines ==
    {"police", "header", "item", "prime", "english", "bare", "note", "total",
     "sommaire", "mens", "interval", "out"}

Bodies(S) == UNION {[1..n -> S] : n \in 0..MaxBodyLines}

\* the lines of an item that runs over several lines, and the heading between
\* the insured line and the items
UvCoreLines == {"item", "cont", "detail", "assind"}

\* tables one line longer, made of the lines of multi-line items only
LongBodies(S) == [1..(MaxBodyLines + 1) -> S]

\* a UV document: whether a document date is found, whether the summary
\* heading is on the page, how the insured line is written, the table lines
\* (a page without the heading has no table, an undated document a short one)
UvDocs ==
    {d \in [variant : {"UV"}, dated : BOOLEAN, anchor : BOOLEAN,
            insured : {"none", "insured", "badinsured"},
            persons : {0}, police : {FALSE}, cover : {0},
            body : Bodies(UvBodyLines) \cup LongBodies(UvCoreLines)] :
        /\ d.anchor \/ d.body = <<>>
        /\ d.dated \/ Len(d.body) <= MaxUndatedLines}

\* an Assomption document: whether a document date is found, whether the
\* summary heading is on the page, how many insured persons it lists, whether
\* a "Police" line opens the table, the table lines (a page without the
\* heading or without an insured person has no table, an undated document a
\* short one)
AssomptionDocs ==
    {d \in [variant : {"Assomption"}, dated : BOOLEAN, anchor : BOOLEAN,
            insured : {"none"}, persons : {0, 1, 2}, police : BOOLEAN, cover : {0},
            body : Bodies(AssomptionBodyLines)] :
        /\ (d.anchor /\ d.persons > 0) \/ (d.body = <<>> /\ ~d.police)
        /\ d.dated \/ Len(d.body) <= MaxUndatedLines}

NoDoc ==
    [variant |-> "none", dated |-> FALSE, anchor |-> FALSE, insured |-> "none", persons |-> 0,
     police |-> FALSE, cover |-> 0, body |-> <<>>]

\* the line of a page that is not the summary page
CoverLine == <<W(<<"I", "l", "l", "u", "s", "t", "r", "a", "t", "i", "o", "n">>, 40)>>

\* the lines of the summary page, top to bottom
PageLines(d) ==
    IF d.variant = "UV"
    THEN (IF d.anchor THEN <<UvLine("head")>> ELSE <<>>)
         \o (IF d.insured = "none" THEN <<>> ELSE <<UvLine(d.insured)>>)
         \o [i \in 1..Len(d.body) |-> UvLine(d.body[i])]
    ELSE (IF d.anchor THEN <<AssomptionLine("sg"), AssomptionLine("pa")>> ELSE <<>>)
         \o (IF d.persons >= 1 THEN <<AssomptionLine("p1")>> ELSE <<>>)
         \o (IF d.persons >= 2 THEN <<AssomptionLine("p2")>> ELSE <<>>)
         \o (IF d.police THEN <<AssomptionLine("police")>> ELSE <<>>)
         \o [i \in 1..Len(d.body) |-> AssomptionLine(d.body[i])]

\* page.extract_words(): line i stands at top 100 + 12 i, every second word
\* of a line 1.5 lower (tops in tenths)
RECURSIVE PageWords(_, _)
PageWords(pageLines, i) ==
    IF i > Len(pageLines) THEN <<>>
    ELSE [j \in 1..Len(pageLines[i]) |->
             [text |-> pageLines[i][j].text,
              x0 |-> pageLines[i][j].x0,
              top |-> (100 + 12 * i) * 10 + (IF j % 2 = 0 THEN 15 ELSE 0)]]
         \o PageWords(pageLines, i + 1)

\* page.extract_text(): the lines, one per row
RECURSIVE PageText(_)
PageText(pageLines) ==
    IF pageLines = <<>> THEN <<>>
    ELSE IF Len(pageLines) = 1 THEN JoinWords(pageLines[1])
    ELSE JoinWords(pageLines[1]) \o <<"\n">> \o PageText(Tail(pageLines))

\* the pages detect_source reads: pdf.pages[:3]
DetectPages == 3

\* a page before the summary page
CoverPage ==
    [text |-> PageText(<<CoverLine>>), words |-> PageWords(<<CoverLine>>, 1)]

\* pdf.pages: the summary page after the pages before it
Pages(d) ==
    [p \in 1..d.cover |-> CoverPage]
    \o <<[text |-> PageText(PageLines(d)), words |-> PageWords(PageLines(d), 1)]>>

(***************************************************************************)
(* Extraction of one document: state shared by the two extractors          *)
(***************************************************************************)

\* extract_document_date(pdf) or ""
DocumentDate(d) ==
    IF d.dated
    THEN <<"L", "u", "n", "d", "i", ",", " ", "1", "7", " ", "n", "o", "v", "e", "m", "b", "r", "e", " ", "2", "0", "2", "5">>
    ELSE <<>>

\* extract_advisor_name(pdf) or ""
AdvisorName(d) == <<"A", "n", "n", " ", "R", "o", "y">>

\* pdf_path.name
PdfFilename(d) == IF d.variant = "UV" THEN <<"u", "v", ".", "p", "d", "f">> ELSE <<"a", "s", ".", "p", "d", "f">>

\* no line scanned yet
NoLineScanned == [branch |-> "none", line_words |-> <<>>, full_line |-> <<>>, row |-> <<>>]

\* the locals of extract_summary_with_pdfplumber before the scan
ScanLocalsStart ==
    /\ lines = <<>>
    /\ lineNo = 1
    /\ line = NoLineScanned
    /\ insured_info = None
    /\ protections = <<>>
    /\ current_protection = 0
    /\ extraction_complete = FALSE
    /\ insured_persons = <<>>
    /\ guarantees = <<>>
    /\ in_table = FALSE
    /\ total_annual_premium = <<>>
    /\ total_monthly_premium = <<>>
    /\ payment_interval = <<>>
    /\ extraction = Unset
    /\ unified = Unset
    /\ df = Unset

DocumentIdle == doc = NoDoc /\ source = "none" /\ pc = "idle" /\ ScanLocalsStart

\* the caller hands the document to the extractor of its vendor
DocumentStart ==
    /\ doc \in UvDocs \cup AssomptionDocs
    /\ source = doc.variant
    /\ pc = "closed"
    /\ ScanLocalsStart

\* for page in pdf.pages: ... break: the first of the pages that hold the
\* anchor, 0 if none does
FirstPage(hits) ==
    IF hits = {} THEN 0 ELSE CHOOSE p \in hits : \A q \in hits : p <= q

\* the scan is at a line
Scanning(variant) ==
    /\ pc = "scan"
    /\ source = variant
    /\ lineNo <= Len(lines)

(***************************************************************************)
(* UV extractor: extract_summary_with_pdfplumber                           *)
(***************************************************************************)

UvAnchor == <<"S", "O", "M", "M", "A", "I", "R", "E", " ", "D", "E", "S", " ", "P", "R", "O", "T", "E", "C", "T", "I", "O", "N", "S", " ", "E", "T", " ", "D", "E", "S", " ", "P", "R", "I", "M", "E", "S">>

\* steps 2 and 3: find the summary page, group its words into lines
UvOpen ==
    /\ pc = "closed"
    /\ source = "UV"
    /\ LET pages == Pages(doc)
           summary_page == FirstPage({p \in 1..Len(pages) :
                                        Contains(pages[p].text, UvAnchor)})
       IN  IF summary_page = 0
           THEN /\ extraction' = None
                /\ pc' = "extracted"
                /\ UNCHANGED lines
           ELSE /\ lines' = SortedLines(group_words_by_line(pages[summary_page].words))
                /\ pc' = "scan"
                /\ UNCHANGED extraction
    /\ UNCHANGED <<doc, source, lineNo, line, insured_info, protections, current_protection,
                   extraction_complete, insured_persons, guarantees, in_table,
                   total_annual_premium, total_monthly_premium, payment_interval,
                   unified, df>>
    /\ UNCHANGED <<amountVars, dateVars, insVars, colVars, batchVars, groupVars, authVars>>

uv_line_words == lines[lineNo]

uv_full_line == JoinWords(uv_line_words)

uv_row_text == extract_row_by_columns(uv_line_words, UV_COLUMN_BOUNDARIES)

uv_desc == Strip(uv_row_text["description"])

uv_amount == normalize_amount(uv_row_text["insurance_amount"])

uv_annual == Strip(uv_row_text["annual_premium"])

uv_monthly == Strip(uv_row_text["monthly_premium"])

\* the branch of the loop body the line takes
UvBranch ==
    LET row_text == uv_row_text
        desc == Strip(row_text["description"])
    IN  IF insured_info = None /\ HasDate(uv_full_line) THEN "insured"
        ELSE IF Contains(row_text["description"],
                         <<"P", "r", "i", "m", "e", " ", "t", "o", "t", "a", "l", "e">>)
        THEN "totals"
        ELSE IF \/ desc = <<>>
                \/ desc = <<"A", "s", "s", "u", "r", "a", "n", "c", "e", " ", "i", "n", "d", "i", "v", "i", "d", "u", "e", "l", "l", "e">>
                \/ Contains(desc, <<"S", "O", "M", "M", "A", "I", "R", "E">>)
        THEN "skip"
        ELSE IF StartsWith(desc, <<"(">>) /\ current_protection # 0 THEN "detail"
        ELSE IF \/ uv_is_numeric_amount(Str(normalize_amount(row_text["insurance_amount"])))
                \/ uv_is_numeric_amount(Str(Strip(row_text["annual_premium"])))
        THEN "item"
        ELSE IF current_protection # 0 /\ desc # <<>> /\ ~StartsWith(desc, <<"(">>)
        THEN "continuation"
        ELSE "other"

\* the loop head without the break on extraction_complete
UvScanPastTotals(branch) ==
    /\ Scanning("UV")
    /\ UvBranch = branch
    /\ line' = [branch |-> branch, line_words |-> uv_line_words,
                full_line |-> uv_full_line, row |-> uv_row_text]
    /\ lineNo' = lineNo + 1
    /\ UNCHANGED <<doc, source, pc, lines, insured_persons, guarantees, in_table,
                   payment_interval, extraction, unified, df>>
    /\ UNCHANGED <<amountVars, dateVars, insVars, colVars, batchVars, groupVars, authVars>>

\* the loop head: the line's words, raw text and ColumnRow, and the move to
\* the next line
UvScan(branch) ==
    /\ Scanning("UV")
    /\ ~extraction_complete
    /\ UvBranch = branch
    /\ line' = [branch |-> branch, line_words |-> uv_line_words,
                full_line |-> uv_full_line, row |-> uv_row_text]
    /\ lineNo' = lineNo + 1
    /\ UNCHANGED <<doc, source, pc, lines, insured_persons, guarantees, in_table,
                   payment_interval, extraction, unified, df>>
    /\ UNCHANGED <<amountVars, dateVars, insVars, colVars, batchVars, groupVars, authVars>>

\* the first line holding a date is parsed as the insured line
UvInsuredLine ==
    /\ UvScan("insured")
    /\ insured_info' = uv_parse_insured_line(uv_full_line)
    /\ UNCHANGED <<protections, current_protection, extraction_complete,
                   total_annual_premium, total_monthly_premium>>

\* "Prime totale" in the description column ends the extraction
UvTotalsLine ==
    /\ UvScan("totals")
    /\ total_annual_premium' = Strip(uv_row_text["annual_premium"])
    /\ total_monthly_premium' = Strip(uv_row_text["monthly_premium"])
    /\ extraction_complete' = TRUE
    /\ UNCHANGED <<insured_info, protections, current_protection>>

\* empty description, "Assurance individuelle", a "SOMMAIRE" heading
UvSkipLine ==
    /\ UvScan("skip")
    /\ UNCHANGED <<insured_info, protections, current_protection, extraction_complete,
                   total_annual_premium, total_monthly_premium>>

\* "(...)" after an item appended to the item's name
UvDetailLineAsName ==
    /\ UvScan("detail")
    /\ protections' = [protections EXCEPT ![current_protection].protection_name =
                                             @ \o <<" ">> \o uv_desc]
    /\ UNCHANGED <<insured_info, current_protection, extraction_complete,
                   total_annual_premium, total_monthly_premium>>

\* "(...)" after an item: the item's details
UvDetailLine ==
    /\ UvScan("detail")
    /\ protections' = [protections EXCEPT ![current_protection].details = uv_desc]
    /\ UNCHANGED <<insured_info, current_protection, extraction_complete,
                   total_annual_premium, total_monthly_premium>>

\* a numeric amount or a numeric annual premium: a new item
UvItemLine ==
    /\ UvScan("item")
    /\ protections' = Append(protections,
                             [protection_name |-> uv_desc,
                              insurance_amount |-> uv_amount,
                              annual_premium |-> uv_annual,
                              monthly_premium |-> uv_monthly,
                              details |-> <<>>])
    /\ current_protection' = Len(protections) + 1
    /\ UNCHANGED <<insured_info, extraction_complete, total_annual_premium,
                   total_monthly_premium>>

\* a description after an item read as an item of its own
UvContinuationLineAsItem ==
    /\ UvScan("continuation")
    /\ protections' = Append(protections,
                             [protection_name |-> uv_desc,
                              insurance_amount |-> uv_amount,
                              annual_premium |-> uv_annual,
                              monthly_premium |-> uv_monthly,
                              details |-> <<>>])
    /\ current_protection' = Len(protections) + 1
    /\ UNCHANGED <<insured_info, extraction_complete, total_annual_premium,
                   total_monthly_premium>>

\* a description after an item: appended to its name when the amount and
\* annual premium columns are empty
UvContinuationLine ==
    /\ UvScan("continuation")
    /\ protections' =
           IF uv_row_text["insurance_amount"] = <<>> /\ uv_row_text["annual_premium"] = <<>>
           THEN [protections EXCEPT ![current_protection].protection_name =
                                        @ \o <<" ">> \o uv_desc]
           ELSE protections
    /\ UNCHANGED <<insured_info, current_protection, extraction_complete,
                   total_annual_premium, total_monthly_premium>>

\* a line no branch takes
UvOtherLine ==
    /\ UvScan("other")
    /\ UNCHANGED <<insured_info, protections, current_protection, extraction_complete,
                   total_annual_premium, total_monthly_premium>>

\* after the loop: the SummaryExtraction, with or without an insured person
UvReturnWithoutInsured ==
    /\ pc = "scan"
    /\ source = "UV"
    /\ lineNo > Len(lines) \/ extraction_complete
    /\ extraction' =
           [t |-> "SummaryExtraction",
            document_date |-> DocumentDate(doc),
            advisor_name |-> AdvisorName(doc),
            insured |-> insured_info,
            protections |-> protections,
            total_annual_premium |-> total_annual_premium,
            total_monthly_premium |-> total_monthly_premium]
    /\ pc' = "extracted"
    /\ UNCHANGED <<doc, source, lines, lineNo, line, insured_info, protections,
                   current_protection, extraction_complete, insured_persons,
                   guarantees, in_table, total_annual_premium, total_monthly_premium,
                   payment_interval, unified, df>>
    /\ UNCHANGED <<amountVars, dateVars, insVars, colVars, batchVars, groupVars, authVars>>

\* after the loop: None without an insured person, else the SummaryExtraction
UvReturn ==
    /\ pc = "scan"
    /\ source = "UV"
    /\ lineNo > Len(lines) \/ extraction_complete
    /\ extraction' =
           IF insured_info = None THEN None
           ELSE [t |-> "SummaryExtraction",
                 document_date |-> DocumentDate(doc),
                 advisor_name |-> AdvisorName(doc),
                 insured |-> insured_info,
                 protections |-> protections,
                 total_annual_premium |-> total_annual_premium,
                 total_monthly_premium |-> total_monthly_premium]
    /\ pc' = "extracted"
    /\ UNCHANGED <<doc, source, lines, lineNo, line, insured_info, protections,
                   current_protection, extraction_complete, insured_persons,
                   guarantees, in_table, total_annual_premium, total_monthly_premium,
                   payment_interval, unified, df>>
    /\ UNCHANGED <<amountVars, dateVars, insVars, colVars, batchVars, groupVars, authVars>>

(***************************************************************************)
(* Assomption extractor: extract_summary_with_pdfplumber                   *)
(***************************************************************************)

\* the summary page holds "Sommaire des garanties", "Personne" and "assurer"
AssomptionAnchor(text) ==
    /\ Contains(text, <<"S", "o", "m", "m", "a", "i", "r", "e", " ", "d", "e", "s", " ", "g", "a", "r", "a", "n", "t", "i", "e", "s">>)
    /\ Contains(text, <<"P", "e", "r", "s", "o", "n", "n", "e">>)
    /\ Contains(text, <<"a", "s", "s", "u", "r", "e", "r">>)

\* \w over the characters of the documents
WordChars ==
    {UpperSeq[i] : i \in 1..Len(UpperSeq)} \cup {LowerSeq[i] : i \in 1..Len(LowerSeq)}
    \cup Digits \cup {"_"}

\* re.search(r"(\d[\d\s,]*\d?\s*\$)", text): group 1, <<>> without a match
AmountSearch(text) ==
    LET class == Digits \cup Whitespace \cup {","}
        ends(i) == RunEnd(text, i + 1, class)
        hits == {i \in 1..Len(text) :
                    /\ text[i] \in Digits
                    /\ ends(i) <= Len(text)
                    /\ text[ends(i)] = "$"}
    IN  IF hits = {} THEN <<>>
        ELSE LET i == CHOOSE i \in hits : \A j \in hits : i <= j
             IN  SubSeq(text, i, ends(i))

\* re.search(r"Intervalle de paiement\s+(\w+)", text): group 1, <<>> without
\* a match
IntervalSearch(text) ==
    LET lit == <<"I", "n", "t", "e", "r", "v", "a", "l", "l", "e", " ", "d", "e", " ", "p", "a", "i", "e", "m", "e", "n", "t">>
        wordLo(i) == RunEnd(text, i + Len(lit), Whitespace)
        wordEnd(i) == RunEnd(text, wordLo(i), WordChars)
        hits == {i \in 1..Len(text) :
                    /\ LitAt(text, i, lit)
                    /\ wordLo(i) > i + Len(lit)
                    /\ wordEnd(i) > wordLo(i)}
    IN  IF hits = {} THEN <<>>
        ELSE LET i == CHOOSE i \in hits : \A j \in hits : i <= j
             IN  SubSeq(text, wordLo(i), wordEnd(i) - 1)

\* steps 2 to 4: find the summary page, parse its insured persons, group its
\* words into lines
AssomptionOpen ==
    /\ pc = "closed"
    /\ source = "Assomption"
    /\ LET pages == Pages(doc)
           summary_page == FirstPage({p \in 1..Len(pages) :
                                        AssomptionAnchor(pages[p].text)})
           persons == parse_all_insured_persons(pages[summary_page].text)
       IN  IF summary_page = 0
           THEN /\ extraction' = None
                /\ pc' = "extracted"
                /\ UNCHANGED <<lines, insured_persons>>
           ELSE IF persons = <<>>
           THEN /\ insured_persons' = persons
                /\ extraction' = None
                /\ pc' = "extracted"
                /\ UNCHANGED lines
           ELSE /\ insured_persons' = persons
                /\ lines' = SortedLines(group_words_by_line(pages[summary_page].words))
                /\ pc' = "scan"
                /\ UNCHANGED extraction
    /\ UNCHANGED <<doc, source, lineNo, line, insured_info, protections, current_protection,
                   extraction_complete, guarantees, in_table, total_annual_premium,
                   total_monthly_premium, payment_interval, unified, df>>
    /\ UNCHANGED <<amountVars, dateVars, insVars, colVars, batchVars, groupVars, authVars>>

as_line_words == lines[lineNo]

\* the raw text joined from the words that fall in a column only
as_full_line_from_columns ==
    JoinWords(SelectSeq(as_line_words,
                        LAMBDA w : WordColumn(w.x0, ASSOMPTION_COLUMN_BOUNDARIES) # 0))

as_full_line == JoinWords(as_line_words)

as_row == extract_row_by_columns(as_line_words, ASSOMPTION_COLUMN_BOUNDARIES)

\* the header phrases a table line is skipped for
HeaderPhrases ==
    {<<"A", "s", "s", "u", "r", "a", "n", "c", "e", " ", "d", "e", "m", "a", "n", "d", "e", "e">>,
     <<"C", "a", "p", "i", "t", "a", "l", " ", "a", "s", "s", "u", "r", "e">>,
     <<"d", "e", "s", " ", "p", "r", "i", "m", "e", "s">>,
     <<"i", "n", "i", "t", "i", "a", "l", "e">>,
     <<"A", "s", "s", "u", "r", "a", "n", "c", "e", " ", "d", "e", "m", "a", "n", "d", "e_acute", "e">>,
     <<"C", "a", "p", "i", "t", "a", "l", " ", "a", "s", "s", "u", "r", "e_acute">>}

\* the branch taken when lines outside the table are read as table lines
AssomptionBranchNoTable ==
    LET full_line == as_full_line
        stripped == Strip(full_line)
    IN
    IF StartsWith(stripped, <<"P", "o", "l", "i", "c", "e", " ">>) /\ ~in_table
    THEN "police"
    ELSE IF Contains(full_line, <<"P", "r", "i", "m", "e", " ", "a", "n", "n", "u", "e", "l", "l", "e", " ", "t", "o", "t", "a", "l", "e">>)
    THEN "annual"
    ELSE IF StartsWith(stripped, <<"P", "r", "i", "m", "e", " ", "t", "o", "t", "a", "l", "e">>)
    THEN "monthly"
    ELSE IF Contains(full_line, <<"I", "n", "t", "e", "r", "v", "a", "l", "l", "e", " ", "d", "e", " ", "p", "a", "i", "e", "m", "e", "n", "t">>)
    THEN "interval"
    ELSE IF \/ \E h \in HeaderPhrases : Contains(full_line, h)
            \/ StartsWith(stripped, <<"s", "u", "r", " ">>)
    THEN "header"
    ELSE IF stripped = <<"S", "o", "m", "m", "a", "i", "r", "e">> THEN "sommaire"
    ELSE "row"

\* the branch of the loop body the line takes
AssomptionBranch ==
    LET full_line == as_full_line
        stripped == Strip(full_line)
    IN
    IF StartsWith(stripped, <<"P", "o", "l", "i", "c", "e", " ">>) /\ ~in_table
    THEN "police"
    ELSE IF Contains(full_line, <<"P", "r", "i", "m", "e", " ", "a", "n", "n", "u", "e", "l", "l", "e", " ", "t", "o", "t", "a", "l", "e">>)
    THEN "annual"
    ELSE IF StartsWith(stripped, <<"P", "r", "i", "m", "e", " ", "t", "o", "t", "a", "l", "e">>)
    THEN "monthly"
    ELSE IF Contains(full_line, <<"I", "n", "t", "e", "r", "v", "a", "l", "l", "e", " ", "d", "e", " ", "p", "a", "i", "e", "m", "e", "n", "t">>)
    THEN "interval"
    ELSE IF ~in_table THEN "outside"
    ELSE IF \/ \E h \in HeaderPhrases : Contains(full_line, h)
            \/ StartsWith(stripped, <<"s", "u", "r", " ">>)
    THEN "header"
    ELSE IF stripped = <<"S", "o", "m", "m", "a", "i", "r", "e">> THEN "sommaire"
    ELSE "row"

\* the loop head: the line's words and raw text (the ColumnRow is computed
\* for table rows only), and the move to the next line
AssomptionScan(branch) ==
    /\ Scanning("Assomption")
    /\ AssomptionBranch = branch
    /\ line' = [branch |-> branch, line_words |-> as_line_words,
                full_line |-> as_full_line,
                row |-> IF branch = "row" THEN as_row ELSE <<>>]
    /\ lineNo' = lineNo + 1
    /\ UNCHANGED <<doc, source, pc, lines, insured_info, protections, current_protection,
                   extraction_complete, insured_persons, extraction, unified, df>>
    /\ UNCHANGED <<amountVars, dateVars, insVars, colVars, batchVars, groupVars, authVars>>

\* a line starting with "Police " opens the table
AssomptionPoliceLine ==
    /\ AssomptionScan("police")
    /\ in_table' = TRUE
    /\ UNCHANGED <<guarantees, total_annual_premium, total_monthly_premium,
                   payment_interval>>

\* "Prime annuelle totale": the total annual premium
AssomptionAnnualTotalLine ==
    /\ AssomptionScan("annual")
    /\ total_annual_premium' =
           IF AmountSearch(as_full_line) # <<>> THEN Strip(AmountSearch(as_full_line))
           ELSE total_annual_premium
    /\ UNCHANGED <<guarantees, in_table, total_monthly_premium, payment_interval>>

\* a line starting with "Prime totale": the total monthly premium
AssomptionMonthlyTotalLine ==
    /\ AssomptionScan("monthly")
    /\ total_monthly_premium' =
           IF AmountSearch(as_full_line) # <<>> THEN Strip(AmountSearch(as_full_line))
           ELSE total_monthly_premium
    /\ UNCHANGED <<guarantees, in_table, total_annual_premium, payment_interval>>

\* "Intervalle de paiement": the payment interval
AssomptionIntervalLine ==
    /\ AssomptionScan("interval")
    /\ payment_interval' =
           IF IntervalSearch(as_full_line) # <<>> THEN Strip(IntervalSearch(as_full_line))
           ELSE payment_interval
    /\ UNCHANGED <<guarantees, in_table, total_annual_premium, total_monthly_premium>>

\* a line outside the table
AssomptionOutsideLine ==
    /\ AssomptionScan("outside")
    /\ UNCHANGED <<guarantees, in_table, total_annual_premium, total_monthly_premium,
                   payment_interval>>

\* a header line of the table
AssomptionHeaderLine ==
    /\ AssomptionScan("header")
    /\ UNCHANGED <<guarantees, in_table, total_annual_premium, total_monthly_premium,
                   payment_interval>>

\* "Sommaire" closes the table
AssomptionSommaireLine ==
    /\ AssomptionScan("sommaire")
    /\ in_table' = FALSE
    /\ UNCHANGED <<guarantees, total_annual_premium, total_monthly_premium,
                   payment_interval>>

\* a table row: a guarantee when it has a description and a numeric capital
\* or premium
AssomptionRowLine ==
    /\ AssomptionScan("row")
    /\ LET desc == Strip(as_row["description"])
           capital == Strip(as_row["capital_assure"])
           duree == Strip(as_row["duree_paiement"])
           prime == Strip(as_row["prime_annuelle"])
       IN  guarantees' =
               IF /\ desc # <<>>
                  /\ \/ assomption_is_numeric_amount(Str(capital))
                     \/ assomption_is_numeric_amount(Str(prime))
               THEN Append(guarantees,
                           [protection_name |-> desc,
                            capital_assure |-> capital,
                            duree_paiement |-> duree,
                            prime_annuelle |-> prime])
               ELSE guarantees
    /\ UNCHANGED <<in_table, total_annual_premium, total_monthly_premium,
                   payment_interval>>

\* after the loop: the SummaryExtraction
AssomptionReturn ==
    /\ pc = "scan"
    /\ source = "Assomption"
    /\ lineNo > Len(lines)
    /\ extraction' =
           [t |-> "SummaryExtraction",
            document_date |-> DocumentDate(doc),
            advisor_name |-> AdvisorName(doc),
            insured_persons |-> insured_persons,
            guarantees |-> guarantees,
            total_annual_premium |-> total_annual_premium,
            total_monthly_premium |-> total_monthly_premium,
            payment_interval |-> payment_interval]
    /\ pc' = "extracted"
    /\ UNCHANGED <<doc, source, lines, lineNo, line, insured_info, protections,
                   current_protection, extraction_complete, insured_persons,
                   guarantees, in_table, total_annual_premium, total_monthly_premium,
                   payment_interval, unified, df>>
    /\ UNCHANGED <<amountVars, dateVars, insVars, colVars, batchVars, groupVars, authVars>>

(***************************************************************************)
(* Unifier: convert_*_extraction, unified_to_dataframe, extract_and_unify_* *)
(***************************************************************************)

\* the full name left as the f-string gives it
insured_name_unstripped(p) == p.first_name \o <<" ">> \o p.last_name

\* UnifiedInsured.insured_name
insured_name(p) == Strip(p.first_name \o <<" ">> \o p.last_name)

\* x kept as it is, empty or not
KeepEmpty(s) == Str(s)

\* x if x else None, for a str
OrNone(s) == IF s # <<>> THEN Str(s) ELSE None

\* unify_extraction.convert_uv_extraction
convert_uv_extraction(e) ==
    [source |-> "UV",
     document_date |-> formatted_date(Str(e.document_date)),
     advisor_name |-> e.advisor_name,
     pdf_filename |-> PdfFilename(doc),
     insured_persons |->
         <<[insured_number |-> <<"1">>,
            last_name |-> e.insured.last_name,
            first_name |-> e.insured.first_name,
            sex |-> e.insured.sex,
            age |-> e.insured.age,
            smoker |-> e.insured.smoker,
            birth_date |-> Str(e.insured.birth_date)]>>,
     protections |->
         [k \in 1..Len(e.protections) |->
             [product_name |-> e.protections[k].protection_name,
              coverage_amount |-> parse_currency(Str(e.protections[k].insurance_amount)),
              policy_premium |-> parse_currency(Str(e.protections[k].annual_premium)),
              monthly_premium |-> parse_currency(Str(e.protections[k].monthly_premium)),
              payment_duration |-> None,
              details |-> OrNone(e.protections[k].details)]],
     total_annual_premium |-> parse_currency(Str(e.total_annual_premium)),
     total_monthly_premium |-> parse_currency(Str(e.total_monthly_premium)),
     payment_interval |-> None]

\* unify_extraction.convert_assomption_extraction
convert_assomption_extraction(e) ==
    [source |-> "Assomption",
     document_date |-> formatted_date(Str(e.document_date)),
     advisor_name |-> e.advisor_name,
     pdf_filename |-> PdfFilename(doc),
     insured_persons |->
         [k \in 1..Len(e.insured_persons) |->
             [insured_number |-> e.insured_persons[k].number,
              last_name |-> e.insured_persons[k].last_name,
              first_name |-> e.insured_persons[k].first_name,
              sex |-> e.insured_persons[k].sex,
              age |-> e.insured_persons[k].age,
              smoker |-> e.insured_persons[k].smoker,
              birth_date |-> None]],
     protections |->
         [k \in 1..Len(e.guarantees) |->
             [product_name |-> e.guarantees[k].protection_name,
              coverage_amount |-> parse_currency(Str(e.guarantees[k].capital_assure)),
              policy_premium |-> parse_currency(Str(e.guarantees[k].prime_annuelle)),
              monthly_premium |-> None,
              payment_duration |-> OrNone(e.guarantees[k].duree_paiement),
              details |-> None]],
     total_annual_premium |-> parse_currency(Str(e.total_annual_premium)),
     total_monthly_premium |-> parse_currency(Str(e.total_monthly_premium)),
     payment_interval |-> OrNone(e.payment_interval)]

\* the row dict unified_to_dataframe builds for one insured person and one
\* protection
UnifiedRow(u, insured, prot) ==
    [insurer_name |-> u.source,
     report_date |-> u.document_date,
     advisor_name |-> u.advisor_name,
     pdf_filename |-> u.pdf_filename,
     insured_number |-> insured.insured_number,
     last_name |-> insured.last_name,
     first_name |-> insured.first_name,
     insured_name |-> insured_name(insured),
     sex |-> insured.sex,
     birth_date |-> insured.birth_date,
     age |-> insured.age,
     smoker |-> insured.smoker,
     product_name |-> prot.product_name,
     coverage_amount |-> prot.coverage_amount,
     policy_premium |-> prot.policy_premium,
     monthly_premium |-> prot.monthly_premium,
     payment_duration |-> prot.payment_duration,
     details |-> prot.details]

\* for prot in extraction.protections: rows.append(row)
RECURSIVE ProtectionRows(_, _, _)
ProtectionRows(u, insured, prots) ==
    IF prots = <<>> THEN <<>>
    ELSE <<UnifiedRow(u, insured, Head(prots))>> \o ProtectionRows(u, insured, Tail(prots))

\* one row per position: the k-th insured person with the k-th protection
RECURSIVE InsuredRowsPaired(_, _)
InsuredRowsPaired(u, persons) ==
    IF persons = <<>> \/ u.protections = <<>> THEN <<>>
    ELSE <<UnifiedRow(u, Head(persons), Head(u.protections))>>
         \o InsuredRowsPaired([u EXCEPT !.protections = Tail(@)], Tail(persons))

\* the loops nested the other way round: for prot ...: for insured ...
RECURSIVE InsuredRowsItemMajor(_, _)
InsuredRowsItemMajor(u, persons) ==
    IF u.protections = <<>> THEN <<>>
    ELSE [k \in 1..Len(persons) |-> UnifiedRow(u, persons[k], Head(u.protections))]
         \o InsuredRowsItemMajor([u EXCEPT !.protections = Tail(@)], persons)

\* for insured in extraction.insured_persons: for prot in ...
RECURSIVE InsuredRows(_, _)
InsuredRows(u, persons) ==
    IF persons = <<>> THEN <<>>
    ELSE ProtectionRows(u, Head(persons), u.protections) \o InsuredRows(u, Tail(persons))

\* unify_extraction.unified_to_dataframe: the rows, and the totals and
\* metadata kept in DataFrame.attrs
unified_to_dataframe(u) ==
    [t |-> "DataFrame",
     rows |-> InsuredRows(u, u.insured_persons),
     attrs |-> [total_annual_premium |-> u.total_annual_premium,
                total_monthly_premium |-> u.total_monthly_premium,
                payment_interval |-> u.payment_interval,
                source |-> u.source,
                pdf_filename |-> u.pdf_filename,
                insured_persons |->
                    [k \in 1..Len(u.insured_persons) |->
                        [insured_number |-> u.insured_persons[k].insured_number,
                         last_name |-> u.insured_persons[k].last_name,
                         first_name |-> u.insured_persons[k].first_name,
                         insured_name |-> insured_name(u.insured_persons[k]),
                         sex |-> u.insured_persons[k].sex,
                         birth_date |-> u.insured_persons[k].birth_date,
                         age |-> u.insured_persons[k].age,
                         smoker |-> u.insured_persons[k].smoker]]]]

\* what the extract_and_unify_* functions do with the extraction: None for
\* None, else convert and build the DataFrame
Unify(variant) ==
    /\ pc = "extracted"
    /\ source = variant
    /\ IF extraction = None
       THEN /\ df' = None
            /\ UNCHANGED unified
       ELSE /\ unified' = IF variant = "UV" THEN convert_uv_extraction(extraction)
                          ELSE convert_assomption_extraction(extraction)
            /\ df' = unified_to_dataframe(unified')
    /\ pc' = "done"
    /\ UNCHANGED <<doc, source, lines, lineNo, line, insured_info, protections,
                   current_protection, extraction_complete, insured_persons,
                   guarantees, in_table, total_annual_premium, total_monthly_premium,
                   payment_interval, extraction>>
    /\ UNCHANGED <<amountVars, dateVars, insVars, colVars, batchVars, groupVars, authVars>>

\* unify_extraction.extract_and_unify_uv
extract_and_unify_uv == Unify("UV")

\* unify_extraction.extract_and_unify_assomption
extract_and_unify_assomption == Unify("Assomption")

DocumentNext ==
    \/ UvOpen
    \/ UvInsuredLine
    \/ UvTotalsLine
    \/ UvSkipLine
    \/ UvDetailLine
    \/ UvItemLine
    \/ UvContinuationLine
    \/ UvOtherLine
    \/ UvReturn
    \/ AssomptionOpen
    \/ AssomptionPoliceLine
    \/ AssomptionAnnualTotalLine
    \/ AssomptionMonthlyTotalLine
    \/ AssomptionIntervalLine
    \/ AssomptionOutsideLine
    \/ AssomptionHeaderLine
    \/ AssomptionSommaireLine
    \/ AssomptionRowLine
    \/ AssomptionReturn
    \/ extract_and_unify_uv
    \/ extract_and_unify_assomption

(***************************************************************************)
(* Insured lines handed to parse_all_insured_persons                       *)
(***************************************************************************)

\* the dash written between the person number and the name: hyphen-minus,
\* en-dash, em-dash, and the minus sign U+2212, which is no dash of the class
WrittenDashes == {"-", "U+2013", "U+2014", "U+2212"}

InsuredWritings ==
    [prefix : {<<>>, <<"P", "o", "l", "i", "c", "e", " ", "3", "\n">>},
     number : {<<"1">>, <<"1", "2">>},
     gap1 : {<<>>, <<" ">>},
     dash : WrittenDashes,
     gap2 : {<<>>, <<" ">>},
     name : {<<>>, <<"A", "l">>, <<"A", "l", " ", "B", "o">>, <<"A", "l", " ", " ", "\t", "B", "o">>,
             <<"A", "l", " ", "D", "e", "-", "B", "o", " ", "C", "y">>},
     ageKw : {<<"a", "g", "e">>, <<"A", "g", "e">>, <<"a_circ", "g", "e">>},
     sex : {<<"H", "o", "m", "m", "e">>, <<"F", "e", "m", "m", "e">>},
     smoker : {<<"N", "o", "n", "-", "f", "u", "m", "e", "u", "r">>,
               <<"F", "u", "m", "e", "u", "r">>,
               <<"N", "o", "n", "U+2013", "f", "u", "m", "e", "u", "r">>}]

NoInsuredWriting ==
    [prefix |-> <<>>, number |-> <<>>, gap1 |-> <<>>, dash |-> "-", gap2 |-> <<>>,
     name |-> <<>>, ageKw |-> <<>>, sex |-> <<>>, smoker |-> <<>>]

\* "<number> <dash> <name>, age 26, <sex> , <smoker>"
RenderInsured(p) ==
    p.prefix \o p.number \o p.gap1 \o <<p.dash>> \o p.gap2 \o p.name
    \o <<",", " ">> \o p.ageKw \o <<" ", "2", "6", ",", " ">> \o p.sex
    \o <<" ", ",", " ">> \o p.smoker

\* the UV writing of the same person:
\* "<NAME>, <sex>, 1999-11-30, 26 an(s), <smoker>"
RenderUvInsured(p) ==
    Upper(p.name) \o <<",", " ">> \o p.sex \o <<",", " ", "1", "9", "9", "9", "-", "1", "1", "-", "3", "0", ",", " ", "2", "6", " ", "a", "n", "(", "s", ")", ",", " ">> \o Lower(p.smoker)

InsuredIdle ==
    /\ insParts = NoInsuredWriting
    /\ insText = <<>>
    /\ insResult = Unset
    /\ insUvResult = Unset

InsuredStart ==
    /\ insParts \in InsuredWritings
    /\ insText = RenderInsured(insParts)
    /\ insResult = Unset
    /\ insUvResult = Unset

\* extract_summary_with_pdfplumber step 3
CallParseAllInsured ==
    /\ insResult = Unset
    /\ insResult' = List(parse_all_insured_persons(insText))
    /\ UNCHANGED <<insParts, insText, insUvResult>>
    /\ UNCHANGED <<amountVars, dateVars, colVars, docVars, batchVars, groupVars, authVars>>

\* extract_summary_with_pdfplumber step 4, the line that holds a date
CallUvParseInsuredLine ==
    /\ insUvResult = Unset
    /\ insUvResult' = uv_parse_insured_line(RenderUvInsured(insParts))
    /\ UNCHANGED <<insParts, insText, insResult>>
    /\ UNCHANGED <<amountVars, dateVars, colVars, docVars, batchVars, groupVars, authVars>>

InsuredNext ==
    \/ CallParseAllInsured
    \/ CallUvParseInsuredLine

(***************************************************************************)
(* Lines handed to the column classifier                                   *)
(***************************************************************************)

\* most words of a classified line
MaxLineWords == 2

\* left edges on and just below every bound of the two column tables
BoundaryXs ==
    UNION {{table[k].x_min - 1, table[k].x_min, table[k].x_max - 1, table[k].x_max} :
           k \in 1..4, table \in {UV_COLUMN_BOUNDARIES, ASSOMPTION_COLUMN_BOUNDARIES}}

\* the text of the i-th word pdfplumber returns
WordTexts == <<<<"a">>, <<"b", "b">>, <<"c">>, <<"d">>, <<"e">>, <<"f">>>>

\* a line of n words with the left edges xs
LineOf(xs) == [i \in 1..Len(xs) |-> [text |-> WordTexts[i], x0 |-> xs[i]]]

ColumnLines == {LineOf(xs) : xs \in UNION {[1..n -> BoundaryXs] : n \in 0..MaxLineWords}}

NoLine == [t |-> "unset"]

ColumnIdle ==
    /\ colVariant = "UV"
    /\ colWords = <<>>
    /\ colLine = NoLine
    /\ colStep = "idle"

ColumnStart ==
    /\ colVariant \in {"UV", "Assomption"}
    /\ colWords \in ColumnLines
    /\ colLine = NoLine
    /\ colStep = "ready"

\* one iteration of the line loop of extract_summary_with_pdfplumber: sort
\* the line by x0, join its raw text, classify it by columns
ClassifyLine ==
    /\ colStep = "ready"
    /\ colStep' = "classified"
    /\ LET line_words == SortByX(colWords)
       IN  colLine' = [t |-> "line",
                       line_words |-> line_words,
                       full_line |-> JoinWords(line_words),
                       row |-> extract_row_by_columns(line_words,
                                                      ColumnTable(colVariant))]
    /\ UNCHANGED <<colVariant, colWords>>
    /\ UNCHANGED <<amountVars, dateVars, insVars, docVars, batchVars, groupVars, authVars>>

ColumnNext == ClassifyLine

(***************************************************************************)
(* Document dates handed to the date normalizer                            *)
(***************************************************************************)

DateDays == {<<"0">>, <<"1">>, <<"1", "7">>, <<"3", "1">>, <<"4", "5">>}

DateYears == {<<"2", "0", "2", "5">>, <<"1", "9", "9", "9">>, <<"1", "2", "3", "4", "5">>}

DateCasings == {"lower", "upper", "capital"}

Capitalize(s) == IF s = <<>> THEN s ELSE <<UpperChar(s[1])>> \o Tail(s)

\* strings that are no "day month-name year" date
OtherDates ==
    {<<>>, <<"2", "0", "2", "5", "-", "1", "1", "-", "1", "7">>,
     <<"1", "7", "/", "1", "1", "/", "2", "0", "2", "5">>,
     <<"1", "7", " ", "b", "r", "u", "m", "a", "i", "r", "e", " ", "2", "0", "2", "5">>,
     <<"n", "o", "v", "e", "m", "b", "r", "e", " ", "2", "0", "2", "5">>,
     <<"l", "e", " ", "1", "7", " ", "n", "o", "v", "e", "m", "b", "r", "e", " ", "2", "0", "2", "5">>,
     <<"1", "e", "r", " ", "n", "o", "v", "e", "m", "b", "r", "e", " ", "2", "0", "2", "5">>,
     <<"1", "7", " ", "n", "o", "v", "e", "m", "b", "r", "e">>,
     <<"l", "u", "n", "d", "i">>}

\* the date as it is written in the document
RenderDate(p) ==
    LET plain == (IF p.weekday = 0 THEN <<>> ELSE FRENCH_DAYS[p.weekday] \o <<" ">>)
                 \o p.day \o <<" ">> \o FRENCH_MONTHS[p.month].name
                 \o (IF p.comma THEN <<",">> ELSE <<>>) \o <<" ">> \o p.year
    IN  CASE p.casing = "lower" -> plain
          [] p.casing = "upper" -> Upper(plain)
          [] p.casing = "capital" -> Capitalize(plain)

DateWritings ==
    [kind : {"date"}, weekday : 0..Len(FRENCH_DAYS), day : DateDays,
     month : 1..Len(FRENCH_MONTHS), year : DateYears, comma : BOOLEAN,
     casing : DateCasings, text : {<<>>}]

OtherWritings ==
    [kind : {"other"}, weekday : {0}, day : {<<>>}, month : {1}, year : {<<>>},
     comma : {FALSE}, casing : {"lower"}, text : OtherDates]

NoWriting ==
    [kind |-> "none", weekday |-> 0, day |-> <<>>, month |-> 1, year |-> <<>>,
     comma |-> FALSE, casing |-> "lower", text |-> <<>>]

DateIdle ==
    /\ dateParts = NoWriting
    /\ dateIn = None
    /\ dateOut = Unset
    /\ reportDate = Unset

DateStart ==
    /\ dateParts \in DateWritings \cup OtherWritings \cup {NoWriting}
    /\ dateIn = CASE dateParts.kind = "date" -> Str(RenderDate(dateParts))
                  [] dateParts.kind = "other" -> Str(dateParts.text)
                  [] dateParts.kind = "none" -> None
    /\ dateOut = Unset
    /\ reportDate = Unset

\* a caller normalises the date
CallParseFrenchDate ==
    /\ dateOut = Unset
    /\ dateOut' = parse_french_date(dateIn)
    /\ UNCHANGED <<dateParts, dateIn, reportDate>>
    /\ UNCHANGED <<amountVars, insVars, colVars, docVars, batchVars, groupVars, authVars>>

\* convert_uv_extraction / convert_assomption_extraction set the unified
\* document_date (the extractors hand them a str, "" when no date was found)
ConvertDocumentDate ==
    /\ dateIn.t = "str"
    /\ reportDate = Unset
    /\ reportDate' = formatted_date(dateIn)
    /\ UNCHANGED <<dateParts, dateIn, dateOut>>
    /\ UNCHANGED <<amountVars, insVars, colVars, docVars, batchVars, groupVars, authVars>>

DateNext ==
    \/ CallParseFrenchDate
    \/ ConvertDocumentDate

(***************************************************************************)
(* Amount strings handed to the field normalizer                           *)
(***************************************************************************)

\* longest enumerated amount string
MaxAmountLen == 3

AmountChars == {"5", "0", " ", "$", ",", ".", "e", "_", "-"}

ShortAmounts == UNION {[1..k -> AmountChars] : k \in 0..MaxAmountLen}

Amt50000 == <<"5", "0", " ", "0", "0", "0", " ", "$">>

Amt1000 == <<"1", "0", "0", "0", "$">>

Amt556 == <<"5", "5", "6", ",", "5", "0", " ", "$">>

Amt25000 == <<"2", "5", " ", "0", "0", "0", ",", "0", "0", " ", "$">>

VoirLaDescription == <<"V", "o", "i", "r", " ", "l", "a", " ", "d", "e", "s", "c", "r", "i", "p", "t", "i", "o", "n">>

Incluse == <<"I", "n", "c", "l", "u", "s", "e">>

Placeholders == {VoirLaDescription, Incluse, <<>>}

Casings(s) == {s, Lower(s), Upper(s)}

Pads == {<<>>, <<" ">>, <<"\t">>, <<"\n">>, <<" ", "\t">>}

Padded(S) == {a \o s \o b : a \in Pads, s \in S, b \in Pads}

NamedAmounts ==
    Padded({Amt50000, Amt1000, Amt556, Amt25000}
           \cup UNION {Casings(s) : s \in Placeholders})

AmountStrings == ShortAmounts \cup NamedAmounts

\* arguments that are not strings
NonStrings == {None, PyInt(0), PyInt(5)}

AmountInputs == {Str(s) : s \in AmountStrings} \cup NonStrings

AmountIdle ==
    /\ value = None
    /\ numUV = Unset
    /\ numAS = Unset
    /\ cur = Unset

AmountStart ==
    /\ value \in AmountInputs
    /\ numUV = Unset
    /\ numAS = Unset
    /\ cur = Unset

\* a caller classifies the amount (a str, or None as in the docstring) with
\* the UV classifier
CallUvIsNumeric ==
    /\ value.t \in {"str", "None"}
    /\ numUV = Unset
    /\ numUV' = Bool(uv_is_numeric_amount(value))
    /\ UNCHANGED <<value, numAS, cur>>
    /\ UNCHANGED <<dateVars, insVars, colVars, docVars, batchVars, groupVars, authVars>>

\* a caller classifies the amount with the Assomption classifier
CallAssomptionIsNumeric ==
    /\ value.t \in {"str", "None"}
    /\ numAS = Unset
    /\ numAS' = Bool(assomption_is_numeric_amount(value))
    /\ UNCHANGED <<value, numUV, cur>>
    /\ UNCHANGED <<dateVars, insVars, colVars, docVars, batchVars, groupVars, authVars>>

\* the unifier parses the amount
CallParseCurrency ==
    /\ cur = Unset
    /\ cur' = parse_currency(value)
    /\ UNCHANGED <<value, numUV, numAS>>
    /\ UNCHANGED <<dateVars, insVars, colVars, docVars, batchVars, groupVars, authVars>>

AmountNext ==
    \/ CallUvIsNumeric
    \/ CallAssomptionIsNumeric
    \/ CallParseCurrency

(***************************************************************************)
(* Dispatch and batch driver: extract_and_unify, detect_source,            *)
(* process_directory                                                       *)
(***************************************************************************)

\* a member of the InsuranceSource enum
InsuranceSource(name) == [t |-> "InsuranceSource", value |-> name]

\* the locals of a fresh call of an extractor
ScanLocalsReset ==
    /\ lines' = <<>>
    /\ lineNo' = 1
    /\ line' = NoLineScanned
    /\ insured_info' = None
    /\ protections' = <<>>
    /\ current_protection' = 0
    /\ extraction_complete' = FALSE
    /\ insured_persons' = <<>>
    /\ guarantees' = <<>>
    /\ in_table' = FALSE
    /\ total_annual_premium' = <<>>
    /\ total_monthly_premium' = <<>>
    /\ payment_interval' = <<>>
    /\ extraction' = Unset
    /\ unified' = Unset

\* detect_source: the vendor whose heading the first of the first three
\* pages with a heading holds, the UV heading looked for first; "none" for None
detect_source(d) ==
    LET pages == Pages(d)
        uv(p) == Contains(pages[p].text, UvAnchor)
        as(p) == Contains(pages[p].text, <<"S", "o", "m", "m", "a", "i", "r", "e", " ", "d", "e", "s", " ", "g", "a", "r", "a", "n", "t", "i", "e", "s">>)
        first == FirstPage({p \in 1..Len(pages) : p <= DetectPages /\ (uv(p) \/ as(p))})
    IN  IF first = 0 THEN "none"
        ELSE IF uv(first) THEN "UV"
        ELSE "Assomption"

\* the file extract_and_unify is called on
CurrentFile ==
    IF bpc = "alone" THEN directory[fileNo] ELSE directory[pdf_files[fileNo]]

\* extract_and_unify can be called: by a caller of its own, or by the loop of
\* process_directory
CanCall ==
    /\ bpc \in {"alone", "loop"}
    /\ pc = "idle"
    /\ fileNo <= Len(directory)

\* InsuranceSource(source) for a str that names no member: ValueError, which
\* neither extract_and_unify nor process_directory catches
ExtractAndUnifyRaise ==
    /\ CanCall
    /\ requested.t = "str"
    /\ requested.s \notin {<<"U", "V">>, <<"A", "s", "s", "o", "m", "p", "t", "i", "o", "n">>}
    /\ IF bpc = "alone"
       THEN /\ alone' = Append(alone, ValueError)
            /\ fileNo' = fileNo + 1
            /\ UNCHANGED bpc
       ELSE /\ bpc' = "raised"
            /\ UNCHANGED <<alone, fileNo>>
    /\ UNCHANGED <<directory, requested, pdf_files, all_dfs, success_count, fail_count,
                   combined>>
    /\ UNCHANGED <<amountVars, dateVars, insVars, colVars, docVars, groupVars, authVars>>

\* the source extract_and_unify goes by: the member the argument is or
\* names, else what detect_source finds
ResolvedSource ==
    IF requested.t = "InsuranceSource" THEN requested.value
    ELSE IF requested = Str(<<"U", "V">>) THEN "UV"
    ELSE IF requested = Str(<<"A", "s", "s", "o", "m", "p", "t", "i", "o", "n">>) THEN "Assomption"
    ELSE detect_source(CurrentFile)

\* no source given and none detected: a warning, None
ExtractAndUnifyUndetected ==
    /\ CanCall
    /\ requested = None
    /\ ResolvedSource = "none"
    /\ doc' = CurrentFile
    /\ source' = "none"
    /\ ScanLocalsReset
    /\ df' = None
    /\ pc' = "done"
    /\ UNCHANGED <<amountVars, dateVars, insVars, colVars, batchVars, groupVars, authVars>>

\* the call of extract_and_unify_uv or extract_and_unify_assomption
ExtractAndUnifyDispatch ==
    /\ CanCall
    /\ requested.t = "str" => requested.s \in {<<"U", "V">>, <<"A", "s", "s", "o", "m", "p", "t", "i", "o", "n">>}
    /\ ResolvedSource # "none"
    /\ doc' = CurrentFile
    /\ source' = ResolvedSource
    /\ ScanLocalsReset
    /\ df' = Unset
    /\ pc' = "closed"
    /\ UNCHANGED <<amountVars, dateVars, insVars, colVars, batchVars, groupVars, authVars>>

\* a caller of its own receives the result
AloneReturn ==
    /\ bpc = "alone"
    /\ pc = "done"
    /\ alone' = Append(alone, df)
    /\ fileNo' = fileNo + 1
    /\ pc' = "idle"
    /\ UNCHANGED <<directory, requested, bpc, pdf_files, all_dfs, success_count,
                   fail_count, combined>>
    /\ UNCHANGED <<doc, source, lines, lineNo, line, insured_info, protections,
                   current_protection, extraction_complete, insured_persons,
                   guarantees, in_table, total_annual_premium, total_monthly_premium,
                   payment_interval, extraction, unified, df>>
    /\ UNCHANGED <<amountVars, dateVars, insVars, colVars, groupVars, authVars>>

\* pd.DataFrame(columns=UNIFIED_COLUMNS)
EmptyDataFrame == [t |-> "DataFrame", rows |-> <<>>, attrs |-> <<>>]

\* the paths left in the order glob listed them
ListedPaths(paths) == paths

\* sorted(pdf_files): the paths in ascending order
RECURSIVE SortPaths(_)
SortPaths(paths) ==
    IF paths = <<>> THEN <<>>
    ELSE LET lo == CHOOSE i \in 1..Len(paths) : \A j \in 1..Len(paths) : paths[i] <= paths[j]
         IN  <<paths[lo]>> \o SortPaths(SubSeq(paths, 1, lo - 1)
                                         \o SubSeq(paths, lo + 1, Len(paths)))

\* the orders glob can list the files of the directory in
Listings ==
    {l \in [1..Len(directory) -> 1..Len(directory)] :
        \A i, j \in 1..Len(directory) : i # j => l[i] # l[j]}

\* process_directory up to its loop: the files listed and sorted; an empty
\* DataFrame at once when there is none
ProcessDirectoryOpen ==
    /\ bpc = "alone"
    /\ pc = "idle"
    /\ fileNo > Len(directory)
    /\ \E listing \in Listings :
           pdf_files' = SortPaths(listing)
    /\ fileNo' = 1
    /\ IF directory = <<>>
       THEN bpc' = "returned" /\ combined' = EmptyDataFrame
       ELSE bpc' = "loop" /\ UNCHANGED combined
    /\ UNCHANGED <<directory, requested, alone, all_dfs, success_count, fail_count>>
    /\ UNCHANGED <<amountVars, dateVars, insVars, colVars, docVars, groupVars, authVars>>

\* the loop body keeping and counting every DataFrame, empty or not
ProcessDirectoryCollectEmpty ==
    /\ bpc = "loop"
    /\ pc = "done"
    /\ IF df # None
       THEN /\ all_dfs' = Append(all_dfs, df)
            /\ success_count' = success_count + 1
            /\ UNCHANGED fail_count
       ELSE /\ fail_count' = fail_count + 1
            /\ UNCHANGED <<all_dfs, success_count>>
    /\ fileNo' = fileNo + 1
    /\ pc' = "idle"
    /\ UNCHANGED <<directory, requested, bpc, pdf_files, alone, combined>>
    /\ UNCHANGED <<doc, source, lines, lineNo, line, insured_info, protections,
                   current_protection, extraction_complete, insured_persons,
                   guarantees, in_table, total_annual_premium, total_monthly_premium,
                   payment_interval, extraction, unified, df>>
    /\ UNCHANGED <<amountVars, dateVars, insVars, colVars, groupVars, authVars>>

\* the loop body after extract_and_unify returned: a DataFrame that is not
\* None and not empty is kept and counted as a success, anything else as a
\* failure
ProcessDirectoryCollect ==
    /\ bpc = "loop"
    /\ pc = "done"
    /\ IF df # None /\ df.rows # <<>>
       THEN /\ all_dfs' = Append(all_dfs, df)
            /\ success_count' = success_count + 1
            /\ UNCHANGED fail_count
       ELSE /\ fail_count' = fail_count + 1
            /\ UNCHANGED <<all_dfs, success_count>>
    /\ fileNo' = fileNo + 1
    /\ pc' = "idle"
    /\ UNCHANGED <<directory, requested, bpc, pdf_files, alone, combined>>
    /\ UNCHANGED <<doc, source, lines, lineNo, line, insured_info, protections,
                   current_protection, extraction_complete, insured_persons,
                   guarantees, in_table, total_annual_premium, total_monthly_premium,
                   payment_interval, extraction, unified, df>>
    /\ UNCHANGED <<amountVars, dateVars, insVars, colVars, groupVars, authVars>>

\* pd.concat(all_dfs, ignore_index=True): the rows one DataFrame after the other
RECURSIVE ConcatRows(_)
ConcatRows(dfs) ==
    IF dfs = <<>> THEN <<>> ELSE dfs[1].rows \o ConcatRows(Tail(dfs))

\* after the loop: the combined DataFrame and its summary
ProcessDirectoryReturn ==
    /\ bpc = "loop"
    /\ pc = "idle"
    /\ fileNo > Len(directory)
    /\ combined' =
           IF all_dfs = <<>> THEN EmptyDataFrame
           ELSE [t |-> "DataFrame",
                 rows |-> ConcatRows(all_dfs),
                 attrs |-> [files_processed |-> success_count,
                            files_failed |-> fail_count,
                            total_protections |-> Len(ConcatRows(all_dfs))]]
    /\ bpc' = "returned"
    /\ UNCHANGED <<directory, requested, pdf_files, fileNo, alone, all_dfs,
                   success_count, fail_count>>
    /\ UNCHANGED <<amountVars, dateVars, insVars, colVars, docVars, groupVars, authVars>>

BatchNext ==
    \/ ExtractAndUnifyRaise
    \/ ExtractAndUnifyUndetected
    \/ ExtractAndUnifyDispatch
    \/ AloneReturn
    \/ ProcessDirectoryOpen
    \/ ProcessDirectoryCollect
    \/ ProcessDirectoryReturn
    \/ DocumentNext

(***************************************************************************)
(* Directories handed to the batch driver                                  *)
(***************************************************************************)

\* most files of a directory
MaxFiles == 2

\* a UV illustration whose table has every kind of line, one with no item,
\* one whose summary page comes after three other pages, one without the
\* summary heading; an Assomption illustration whose table
\* has every kind of line, one with no insured person
BatchDocs ==
    {[variant |-> "UV", dated |-> TRUE, anchor |-> TRUE, insured |-> "insured",
      persons |-> 0, police |-> FALSE, cover |-> 0,
      body |-> <<"cont", "assind", "item", "cont", "detail", "total">>],
     [variant |-> "UV", dated |-> TRUE, anchor |-> TRUE, insured |-> "insured",
      persons |-> 0, police |-> FALSE, cover |-> 0, body |-> <<"total">>],
     [variant |-> "UV", dated |-> TRUE, anchor |-> TRUE, insured |-> "insured",
      persons |-> 0, police |-> FALSE, cover |-> DetectPages, body |-> <<"item">>],
     [variant |-> "UV", dated |-> TRUE, anchor |-> FALSE, insured |-> "insured",
      persons |-> 0, police |-> FALSE, cover |-> 0, body |-> <<>>],
     [variant |-> "Assomption", dated |-> TRUE, anchor |-> TRUE, insured |-> "none",
      persons |-> 2, police |-> TRUE, cover |-> 0,
      body |-> <<"header", "item", "sommaire", "total", "mens", "interval">>],
     [variant |-> "Assomption", dated |-> TRUE, anchor |-> TRUE, insured |-> "none",
      persons |-> 0, police |-> FALSE, cover |-> 0, body |-> <<>>]}

\* directories of files that differ
Directories ==
    UNION {{dir \in [1..n -> BatchDocs] : \A i, j \in 1..n : i # j => dir[i] # dir[j]} :
              n \in 0..MaxFiles}

\* the source argument: None, a member of the enum, the name of a member, a
\* name of no member
Requests ==
    {None, InsuranceSource("UV"), Str(<<"A", "s", "s", "o", "m", "p", "t", "i", "o", "n">>), Str(<<"M", "a", "n", "u", "v", "i", "e">>)}

BatchIdle ==
    /\ directory = <<>>
    /\ requested = None
    /\ bpc = "idle"
    /\ pdf_files = <<>>
    /\ fileNo = 1
    /\ alone = <<>>
    /\ all_dfs = <<>>
    /\ success_count = 0
    /\ fail_count = 0
    /\ combined = Unset

BatchStart ==
    /\ directory \in Directories
    /\ requested \in Requests
    /\ bpc = "alone"
    /\ pdf_files = <<>>
    /\ fileNo = 1
    /\ alone = <<>>
    /\ all_dfs = <<>>
    /\ success_count = 0
    /\ fail_count = 0
    /\ combined = Unset

(***************************************************************************)
(* Words handed to the line reconstructor                                  *)
(***************************************************************************)

\* most words handed to group_words_by_line
MaxGroupWords == 3

\* tops of words, in tenths of a point: round() gives 100, 102, 102, 104,
\* 104, 106 and 108
GroupTops == {1000, 1020, 1025, 1035, 1040, 1060, 1075}

\* the words in arrival order, told apart by their x0
GroupInputs ==
    UNION {{[i \in 1..n |-> [text |-> <<"w">>, x0 |-> 30 + 10 * i, top |-> tops[i]]] :
               tops \in [1..n -> GroupTops]} : n \in 0..MaxGroupWords}

GroupIdle ==
    /\ groupWords = <<>>
    /\ groupLines = <<>>
    /\ groupStep = 0

GroupStart ==
    /\ groupWords \in GroupInputs
    /\ groupLines = <<>>
    /\ groupStep = 0

\* one turn of "for word in words": the lines after the next word
GroupNextWord ==
    /\ groupStep < Len(groupWords)
    /\ groupStep' = groupStep + 1
    /\ groupLines' = GroupWord(groupLines, groupWords[groupStep + 1])
    /\ UNCHANGED groupWords
    /\ UNCHANGED <<amountVars, dateVars, insVars, colVars, docVars, batchVars, authVars>>

GroupNext == GroupNextWord

(***************************************************************************)
(* User store: AuthManager over the user sheet (services/auth_manager.py)  *)
(***************************************************************************)

DEFAULT_ADMIN_ID == <<"a", "d", "m", "i", "n">>

MIN_USER_ID_LENGTH == 3

MIN_PASSWORD_LENGTH == 6

ROLE_ADMIN == <<"a", "d", "m", "i", "n">>

ROLE_EMPLOYEE == <<"e", "m", "p", "l", "o", "y", "e", "e">>

\* most rows of the sheet
MaxUsers == 3

\* the user ids the calls are made with, one of them too short
UserIds == {DEFAULT_ADMIN_ID, <<"b", "o", "b">>, <<"e", "v", "e">>, <<"a", "l">>}

\* the passwords the calls are made with, one of them too short
Passwords == {<<"s", "e", "c", "r", "e", "t", "1">>, <<"a", "b", "c">>}

Roles == {ROLE_ADMIN, ROLE_EMPLOYEE}

\* a row of the sheet, by the columns the three calls read: user_id, role
\* and is_active (the name, the e-mail, the password hash, the boards and the
\* dates are written and never read by them)
UserRow(user_id, role, is_active) ==
    [user_id |-> user_id, role |-> role, is_active |-> is_active]

\* _load_users(): the users by id; of two rows with one id the later
LoadedIds == {users[i].user_id : i \in 1..Len(users)}

LoadedUser(user_id) ==
    LET rows == {i \in 1..Len(users) : users[i].user_id = user_id}
    IN  users[CHOOSE i \in rows : \A j \in rows : i >= j]

\* _find_user_row(user_id): the first row holding the id, 0 for None
find_user_row(user_id) ==
    FirstPage({i \in 1..Len(users) : users[i].user_id = user_id})

\* what a call returned: the call, its user and the first item of the tuple
CallReturned(op, user_id, ok) == [op |-> op, user_id |-> user_id, ok |-> ok]

\* _ensure_admin_exists() on an empty sheet: the default admin, active
AuthIdle ==
    /\ users = <<UserRow(DEFAULT_ADMIN_ID, ROLE_ADMIN, TRUE)>>
    /\ authCall = None

AuthStart == AuthIdle

\* create_user(user_id, password, name, email, role)
create_user ==
    \E user_id \in UserIds, password \in Passwords, role \in Roles :
        /\ Len(users) < MaxUsers
        /\ IF \/ user_id \in LoadedIds
              \/ Len(user_id) < MIN_USER_ID_LENGTH
              \/ Len(password) < MIN_PASSWORD_LENGTH
           THEN /\ authCall' = CallReturned("create_user", user_id, FALSE)
                /\ UNCHANGED users
           ELSE /\ users' = Append(users, UserRow(user_id, role, TRUE))
                /\ authCall' = CallReturned("create_user", user_id, TRUE)
        /\ UNCHANGED <<amountVars, dateVars, insVars, colVars, docVars, batchVars, groupVars>>

\* update_user that refuses no role change
UpdateRow(user_data, role, is_active) ==
    UserRow(user_data.user_id,
            IF role = None THEN user_data.role ELSE role.s,
            IF is_active = None THEN user_data.is_active ELSE is_active.b)

\* the active administrators of the loaded users
ActiveAdmins ==
    {id \in LoadedIds : LoadedUser(id).role = ROLE_ADMIN /\ LoadedUser(id).is_active}

\* update_user(user_id, role=role, is_active=is_active): None for an
\* argument left out
update_user ==
    \E user_id \in UserIds, role \in {Str(r) : r \in Roles} \cup {None},
       is_active \in {Bool(TRUE), Bool(FALSE), None} :
        /\ IF user_id \notin LoadedIds
           THEN /\ authCall' = CallReturned("update_user", user_id, FALSE)
                /\ UNCHANGED users
           ELSE IF /\ is_active = Bool(FALSE)
                   /\ LoadedUser(user_id).role = ROLE_ADMIN
                   /\ Cardinality(ActiveAdmins) <= 1
           THEN /\ authCall' = CallReturned("update_user", user_id, FALSE)
                /\ UNCHANGED users
           ELSE /\ users' = [users EXCEPT ![find_user_row(user_id)] =
                                UpdateRow(LoadedUser(user_id), role, is_active)]
                /\ authCall' = CallReturned("update_user", user_id, TRUE)
        /\ UNCHANGED <<amountVars, dateVars, insVars, colVars, docVars, batchVars, groupVars>>

\* the administrators of the loaded users, active or not
Admins == {id \in LoadedIds : LoadedUser(id).role = ROLE_ADMIN}

\* delete_user(user_id)
delete_user ==
    \E user_id \in UserIds :
        /\ IF \/ user_id \notin LoadedIds
              \/ user_id = DEFAULT_ADMIN_ID
              \/ /\ LoadedUser(user_id).role = ROLE_ADMIN
                 /\ Cardinality(Admins) <= 1
           THEN /\ authCall' = CallReturned("delete_user", user_id, FALSE)
                /\ UNCHANGED users
           ELSE /\ users' = SubSeq(users, 1, find_user_row(user_id) - 1)
                            \o SubSeq(users, find_user_row(user_id) + 1, Len(users))
                /\ authCall' = CallReturned("delete_user", user_id, TRUE)
        /\ UNCHANGED <<amountVars, dateVars, insVars, colVars, docVars, batchVars, groupVars>>

AuthNext == create_user \/ update_user \/ delete_user

(***************************************************************************)
(* Specifications: one per component, the other components staying idle    *)
(***************************************************************************)

AmountInit == AmountStart /\ DateIdle /\ InsuredIdle /\ ColumnIdle /\ DocumentIdle
    /\ BatchIdle /\ GroupIdle /\ AuthIdle

SpecAmount == AmountInit /\ [][AmountNext]_vars

DateInit == DateStart /\ AmountIdle /\ InsuredIdle /\ ColumnIdle /\ DocumentIdle
    /\ BatchIdle /\ GroupIdle /\ AuthIdle

SpecDate == DateInit /\ [][DateNext]_vars

InsuredInit == InsuredStart /\ AmountIdle /\ DateIdle /\ ColumnIdle /\ DocumentIdle
    /\ BatchIdle /\ GroupIdle /\ AuthIdle

SpecInsured == InsuredInit /\ [][InsuredNext]_vars

ColumnInit == ColumnStart /\ AmountIdle /\ DateIdle /\ InsuredIdle /\ DocumentIdle
    /\ BatchIdle /\ GroupIdle /\ AuthIdle

SpecColumns == ColumnInit /\ [][ColumnNext]_vars

DocumentInit == DocumentStart /\ AmountIdle /\ DateIdle /\ InsuredIdle /\ ColumnIdle
    /\ BatchIdle /\ GroupIdle /\ AuthIdle

SpecDocument == DocumentInit /\ [][DocumentNext]_vars

GroupInit == GroupStart /\ AmountIdle /\ DateIdle /\ InsuredIdle /\ ColumnIdle
    /\ DocumentIdle /\ BatchIdle /\ AuthIdle

SpecLines == GroupInit /\ [][GroupNext]_vars

BatchInit == BatchStart /\ AmountIdle /\ DateIdle /\ InsuredIdle /\ ColumnIdle
    /\ DocumentIdle /\ GroupIdle /\ AuthIdle

SpecBatch == BatchInit /\ [][BatchNext]_vars

AuthInit == AuthStart /\ AmountIdle /\ DateIdle /\ InsuredIdle /\ ColumnIdle
    /\ DocumentIdle /\ BatchIdle /\ GroupIdle

SpecAuth == AuthInit /\ [][AuthNext]_vars

(***************************************************************************)
(* Field normalizer properties                                             *)
(***************************************************************************)

\* what is left of an amount once spaces and "$" are removed and "," is "."
AmountRemainder(s) ==
    ReplaceChar(SelectSeq(s, LAMBDA c : c \notin {" ", "$"}), ",", ".")

ParsesAsNumber(s) == PyFloat(s) # ValueError

C5_SameClassifier ==
    (numUV # Unset /\ numAS # Unset) => numUV = numAS

\* the digits of a plain amount: digits, or digits "," digits
PlainAmount(r) ==
    LET commas == {i \in 1..Len(r) : r[i] = ","}
        digs == RemoveChar(r, ",")
    IN  /\ Cardinality(commas) <= 1
        /\ digs # <<>>
        /\ \A i \in 1..Len(digs) : digs[i] \in Digits
        /\ commas # {1} /\ commas # {Len(r)}

FractionLen(r) ==
    LET commas == {i \in 1..Len(r) : r[i] = ","}
    IN  IF commas = {} THEN 0 ELSE Len(r) - (CHOOSE i \in commas : TRUE)

\* C6: parse_currency drops "$" and spaces, reads a comma as the decimal
\* separator and returns the number ("50 000 $" is 50000.0, "556,50 $" is
\* 556.5, "25 000,00 $" is 25000.0, "1000$" is 1000.0); an input that is
\* empty, not a string or not parseable gives None, and no call raises.
C6_ParseCurrency ==
    cur # Unset =>
        /\ cur.t \in {"None", "float"}
        /\ value = Str(Amt50000) => cur = Normalize(FALSE, 50000, 0)
        /\ value = Str(Amt556) => cur = Normalize(FALSE, 55650, -2)
        /\ value = Str(Amt25000) => cur = Normalize(FALSE, 2500000, -2)
        /\ value = Str(Amt1000) => cur = Normalize(FALSE, 1000, 0)
        /\ value.t # "str" => cur = None
        /\ value.t = "str" =>
            LET r == SelectSeq(value.s, LAMBDA c : c \notin {" ", "$"})
            IN  /\ PlainAmount(r) =>
                     cur = Normalize(FALSE, DigitsToNat(RemoveChar(r, ",")),
                                     -FractionLen(r))
                /\ (value.s = <<>> \/ ~ParsesAsNumber(ReplaceChar(r, ",", ".")))
                     => cur = None

C6_Witness ==
    /\ value = Str(Amt556)
    /\ cur = Normalize(FALSE, 5565, -1)

\* the ISO date of a written date: year, month number and day, zero-padded
IsoOf(p) ==
    LET num == FRENCH_MONTHS[p.month].num
    IN  p.year \o <<"-">>
        \o (IF num < 10 THEN <<"0", DigitChar(num)>> ELSE <<"1", DigitChar(num - 10)>>)
        \o <<"-">>
        \o (IF Len(p.day) = 1 THEN <<"0">> \o p.day ELSE p.day)

Lundi17Novembre2025 ==
    <<"l", "u", "n", "d", "i", " ", "1", "7", " ", "n", "o", "v", "e", "m", "b", "r", "e", " ", "2", "0", "2", "5">>

Le17NovembreVirgule2025 ==
    <<"1", "7", " ", "n", "o", "v", "e", "m", "b", "r", "e", ",", " ", "2", "0", "2", "5">>

Iso20251117 == <<"2", "0", "2", "5", "-", "1", "1", "-", "1", "7">>

\* C7: a date written "[weekday] day month-name[,] year" in any letter case,
\* with a month of the fixed table, normalises to YYYY-MM-DD ("lundi 17
\* novembre 2025" and "17 novembre, 2025" give "2025-11-17"); a string that
\* is not recognised reaches the unified report date unchanged.
C7_DateNormalization ==
    /\ (dateOut # Unset /\ dateParts.kind = "date") => dateOut = Str(IsoOf(dateParts))
    /\ (dateOut # Unset /\ dateIn = Str(Lundi17Novembre2025))
          => dateOut = Str(Iso20251117)
    /\ (dateOut # Unset /\ dateIn = Str(Le17NovembreVirgule2025))
          => dateOut = Str(Iso20251117)
    /\ (reportDate # Unset /\ dateParts.kind = "date")
          => reportDate = Str(IsoOf(dateParts))
    /\ (reportDate # Unset /\ dateParts.kind = "other") => reportDate = dateIn

C7_Witness ==
    /\ dateIn = Str(Upper(Lundi17Novembre2025))
    /\ dateOut = Str(Iso20251117)
    /\ reportDate = Str(Iso20251117)

C7_WitnessUnchanged ==
    /\ dateIn = Str(<<"1", "7", " ", "b", "r", "u", "m", "a", "i", "r", "e", " ", "2", "0", "2", "5">>)
    /\ reportDate = dateIn

(***************************************************************************)
(* Insured-person properties                                               *)
(***************************************************************************)

\* the InsuredPerson a well-written line stands for
PersonOf(p) ==
    LET tokens == Split(p.name)
    IN  [number |-> p.number,
         last_name |-> IF tokens = <<>> THEN <<>> ELSE tokens[Len(tokens)],
         first_name |-> IF Len(tokens) < 2 THEN <<>>
                        ELSE Join(<<" ">>, SubSeq(tokens, 1, Len(tokens) - 1)),
         sex |-> p.sex,
         age |-> 26,
         smoker |-> p.smoker = <<"F", "u", "m", "e", "u", "r">>]

\* C8: insured lines that differ only in the dash between the person number
\* and the name (hyphen, en-dash or em-dash) parse to the same InsuredPerson.
C8_DashFamily ==
    (insResult # Unset /\ insParts.dash \in {"-", "U+2013", "U+2014"}) =>
        /\ insResult =
             List(parse_all_insured_persons(
                      RenderInsured([insParts EXCEPT !.dash = "-"])))
        /\ insParts.name # <<>> => insResult = List(<<PersonOf(insParts)>>)

C8_Witness ==
    /\ insParts.dash = "U+2014"
    /\ insParts.name = <<"A", "l", " ", "B", "o">>
    /\ insResult # Unset
    /\ insResult.items # <<>>
    /\ insResult.items[1].last_name = <<"B", "o">>

(***************************************************************************)
(* Column classifier properties                                            *)
(***************************************************************************)

\* whether the word's text is one of the words of the column's text
InColumn(w, c) == \E i \in 1..Len(Split(colLine.row[c])) : Split(colLine.row[c])[i] = w.text

ColumnsHolding(w) == {c \in DOMAIN colLine.row : InColumn(w, c)}

\* C9: each word goes to the one column whose half-open range [xMin, xMax)
\* holds its left edge: a word on a column's lower bound goes to that column,
\* a word on a column's upper bound goes to the next column, and no word is
\* placed in two columns.
C9_HalfOpenColumns ==
    colStep = "classified" =>
        LET table == ColumnTable(colVariant)
        IN  \A i \in 1..Len(colWords) :
                LET w == colWords[i]
                IN  /\ Cardinality(ColumnsHolding(w)) <= 1
                    /\ \A k \in 1..Len(table) :
                          /\ InColumn(w, table[k].col)
                               <=> (table[k].x_min <= w.x0 /\ w.x0 < table[k].x_max)
                          /\ w.x0 = table[k].x_min => InColumn(w, table[k].col)
                          /\ (w.x0 = table[k].x_max /\ k < Len(table))
                               => ColumnsHolding(w) = {table[k + 1].col}

C9_Witness ==
    /\ colStep = "classified"
    /\ colVariant = "UV"
    /\ Len(colWords) = 2
    /\ colWords[1].x0 = 400
    /\ colWords[2].x0 = 280
    /\ colLine.row["insurance_amount"] = colWords[2].text
    /\ colLine.row["annual_premium"] = colWords[1].text

(***************************************************************************)
(* Unified record properties                                               *)
(***************************************************************************)

\* extract_and_unify_* returned a DataFrame
Succeeded == pc = "done" /\ df # None

\* the insured persons the extractor found, in match order
InsuredPersons ==
    IF doc.variant = "UV" THEN <<insured_info>> ELSE insured_persons

\* the items the extractor retained, in the order of the scan
RetainedItems == IF doc.variant = "UV" THEN protections ELSE guarantees

\* C1: for every document parsed successfully, of either variant, the
\* number of unified records equals the number of insured persons times the
\* number of retained coverage items.
C1_RecordCount ==
    Succeeded => Len(df.rows) = Len(InsuredPersons) * Len(RetainedItems)

\* two insured persons and two retained items have been unified
C1_Witness ==
    /\ Succeeded
    /\ Len(InsuredPersons) = 2
    /\ Len(RetainedItems) = 2
    /\ Len(df.rows) = 4

\* the insured fields of a unified record
InsuredFields(r) ==
    [insured_number |-> r.insured_number, last_name |-> r.last_name,
     first_name |-> r.first_name, insured_name |-> r.insured_name, sex |-> r.sex,
     birth_date |-> r.birth_date, age |-> r.age, smoker |-> r.smoker]

\* the insured fields of a UnifiedInsured
PersonFields(p) ==
    [insured_number |-> p.insured_number, last_name |-> p.last_name,
     first_name |-> p.first_name, insured_name |-> insured_name(p), sex |-> p.sex,
     birth_date |-> p.birth_date, age |-> p.age, smoker |-> p.smoker]

\* the item fields of a unified record
ItemFields(r) ==
    [product_name |-> r.product_name, coverage_amount |-> r.coverage_amount,
     policy_premium |-> r.policy_premium, monthly_premium |-> r.monthly_premium,
     payment_duration |-> r.payment_duration, details |-> r.details]

\* C2: the unified records are the insured-major cross product: with m
\* insured persons (in match order) and n retained items (in scan order),
\* row (i-1)*n+j carries the insured fields of person i and the item fields
\* of item j, so every insured block lists the same items in the same order.
C2_InsuredMajor ==
    Succeeded =>
        LET m == Len(InsuredPersons)
            n == Len(RetainedItems)
        IN  \A i \in 1..m : \A j \in 1..n :
                LET r == df.rows[(i - 1) * n + j]
                    p == unified.insured_persons[i]
                    g == unified.protections[j]
                IN  /\ InsuredFields(r) = PersonFields(p)
                    /\ ItemFields(r) = g
                    /\ r.last_name = InsuredPersons[i].last_name
                    /\ r.first_name = InsuredPersons[i].first_name
                    /\ r.product_name = RetainedItems[j].protection_name
                    /\ ItemFields(r) = ItemFields(df.rows[j])

\* two different insured persons and two different items have been unified
C2_Witness ==
    /\ Succeeded
    /\ Len(InsuredPersons) = 2
    /\ Len(RetainedItems) = 2
    /\ InsuredPersons[1] # InsuredPersons[2]
    /\ RetainedItems[1] # RetainedItems[2]
    /\ Len(df.rows) = 4

\* C3: in every unified record of either variant, coverage_amount and
\* policy_premium are never both None.
C3_NumericItem ==
    Succeeded =>
        \A k \in 1..Len(df.rows) :
            ~(df.rows[k].coverage_amount = None /\ df.rows[k].policy_premium = None)

\* the same, for the records of UV documents only
C3_NumericItemUV == doc.variant = "UV" => C3_NumericItem

(***************************************************************************)
(* Dropped words                                                           *)
(***************************************************************************)

\* the indices of the words of the scanned line that lie in no column range
DroppedWords ==
    {k \in 1..Len(line.line_words) :
        WordColumn(line.line_words[k].x0, ColumnTable(doc.variant)) = 0}

\* the number of words in the columns of the scanned line's ColumnRow
RECURSIVE RowWordCount(_, _)
RowWordCount(row, cols) ==
    IF cols = {} THEN 0
    ELSE LET c == CHOOSE c \in cols : TRUE
         IN  Len(Split(row[c])) + RowWordCount(row, cols \ {c})

\* a scanned line's dropped words are in no column of its ColumnRow, and the
\* raw line text holds every word of the line, dropped or not
DroppedFromRowNotFromLine ==
    line.branch # "none" =>
        /\ DOMAIN line.row # {} =>
               /\ RowWordCount(line.row, DOMAIN line.row)
                      = Len(line.line_words) - Cardinality(DroppedWords)
               /\ \A c \in DOMAIN line.row :
                      \A t \in 1..Len(Split(line.row[c])) :
                          \E k \in 1..Len(line.line_words) :
                              /\ k \notin DroppedWords
                              /\ line.line_words[k].text = Split(line.row[c])[t]
        /\ Split(line.full_line) = [k \in 1..Len(line.line_words) |-> line.line_words[k].text]

\* C10: a word whose X lies in none of the column ranges contributes to no
\* column of the ColumnRow, yet its text is part of the raw line text; the
\* Assomption parser matches its totals and table-end phrases on that raw
\* text, and the UV parser detects the insured line on it.
C10_DroppedWordInRawLine ==
    /\ DroppedFromRowNotFromLine
    /\ (doc.variant = "Assomption" /\ line.branch # "none") =>
           /\ Contains(line.full_line, <<"P", "r", "i", "m", "e", " ", "a", "n", "n", "u", "e", "l", "l", "e", " ", "t", "o", "t", "a", "l", "e">>)
                  => line.branch \in {"police", "annual"}
           /\ Strip(line.full_line) = <<"S", "o", "m", "m", "a", "i", "r", "e">>
                  => line.branch \in {"outside", "sommaire"}
    /\ (doc.variant = "UV" /\ line.branch = "insured") => HasDate(line.full_line)

\* a word beyond the last column closed the Assomption table: the line holds
\* only dropped words and was matched as "Sommaire"
C10_Witness ==
    /\ doc.variant = "Assomption"
    /\ line.branch = "sommaire"
    /\ DroppedWords = 1..Len(line.line_words)
    /\ ~in_table

\* C10 as stated for both parsers: the raw line text is what the totals
\* phrase is matched on, so a scanned UV line whose raw text holds "Prime
\* totale" (and that is not the insured line) is the totals line.
C10_RawLineMatching ==
    /\ DroppedFromRowNotFromLine
    /\ (doc.variant = "UV" /\ line.branch \notin {"none", "insured"}) =>
           (Contains(line.full_line, <<"P", "r", "i", "m", "e", " ", "t", "o", "t", "a", "l", "e">>)
                => line.branch = "totals")


(***************************************************************************)
(* Documented column thresholds                                            *)
(***************************************************************************)

\* the docstring of extract_uv_pdf: description X < 280, insurance amount
\* 280 <= X < 400, annual premium 400 <= X < 510, monthly premium X >= 510
UV_DOCUMENTED_THRESHOLDS == <<280, 400, 510>>

\* the docstring of extract_assomption_pdf: description X < 350, capital
\* assure 350 <= X < 420, duree de paiement 420 <= X < 520, prime annuelle
\* X >= 520
ASSOMPTION_DOCUMENTED_THRESHOLDS == <<350, 420, 520>>

DocumentedThresholds(variant) ==
    IF variant = "UV" THEN UV_DOCUMENTED_THRESHOLDS ELSE ASSOMPTION_DOCUMENTED_THRESHOLDS

\* the index of the column the docstring gives a word at x: the outer
\* columns are open-ended
DocumentedColumn(x, variant) ==
    LET t == DocumentedThresholds(variant)
    IN  IF x < t[1] THEN 1
        ELSE IF x < t[2] THEN 2
        ELSE IF x < t[3] THEN 3
        ELSE 4

\* C11: column classification follows the documented thresholds with
\* open-ended outer columns: every word is in the column the docstring
\* gives its X (Assomption: < 350, < 420, < 520, >= 520; UV: < 280, < 400,
\* < 510, >= 510).
C11_DocumentedThresholds ==
    colStep = "classified" =>
        \A i \in 1..Len(colWords) :
            InColumn(colWords[i],
                     ColumnTable(colVariant)[DocumentedColumn(colWords[i].x0, colVariant)].col)

\* the same for the words between the outer bounds of the table
C11_InsideOuterBounds ==
    colStep = "classified" =>
        \A i \in 1..Len(colWords) :
            (0 <= colWords[i].x0 /\ colWords[i].x0 < 600) =>
                InColumn(colWords[i],
                         ColumnTable(colVariant)[DocumentedColumn(colWords[i].x0, colVariant)].col)


(***************************************************************************)
(* Multi-line items of the UV table (extract_uv_pdf.py, lines 455-469)     *)
(***************************************************************************)

\* the line about to be scanned has a description and nothing in the
\* coverage-amount and annual premium columns
UvBareDescription ==
    /\ Scanning("UV")
    /\ ~extraction_complete
    /\ uv_desc # <<>>
    /\ uv_row_text["insurance_amount"] = <<>>
    /\ uv_row_text["annual_premium"] = <<>>

\* the line scanned last opened an item, or was appended to one
UvAfterItem ==
    /\ current_protection # 0
    /\ \/ line.branch = "item"
       \/ /\ line.branch = "continuation"
          /\ line.row["insurance_amount"] = <<>>
          /\ line.row["annual_premium"] = <<>>

\* the step appends the description to the name of the current item and
\* touches nothing else of the items
UvAppended ==
    /\ Len(protections') = Len(protections)
    /\ protections' = [protections EXCEPT ![current_protection].protection_name =
                                             @ \o <<" ">> \o uv_desc]
    /\ current_protection' = current_protection

\* C12 as stated: an item line, or a line appended to an item, followed
\* directly by a line with a non-empty description and empty coverage-amount
\* and annual premium columns: the description is appended to the item's
\* name after one space, and no item is added.
C12_BareDescriptionAppended ==
    [][(UvAfterItem /\ UvBareDescription) => UvAppended]_vars

\* C12, amended: the same for a line that no earlier rule of the scan takes
\* (its description does not start with "(", is not "Assurance individuelle",
\* holds neither "SOMMAIRE" nor "Prime totale", and it is not the first dated
\* line of a table whose insured line is still missing).
C12_ContinuationAppended ==
    [][(UvAfterItem /\ UvBareDescription /\ UvBranch = "continuation") => UvAppended]_vars

\* an item made of three lines: two descriptions appended in scan order
C12_Witness ==
    /\ doc.variant = "UV"
    /\ doc.body = <<"item", "cont", "cont">>
    /\ pc = "scan"
    /\ lineNo > Len(lines)
    /\ line.branch = "continuation"
    /\ Len(protections) = 1
    /\ protections[1].protection_name = <<"V", "i", "e", " ", "d", "e", "t", "t", "e", " ", "d", "e", "t", "t", "e">>


(***************************************************************************)
(* Batch driver properties                                                 *)
(***************************************************************************)

\* process_directory has returned
Returned == bpc = "returned"

\* extract_and_unify, called on file k alone, gave a DataFrame
GaveDataFrame(k) == alone[k] # None /\ alone[k] # ValueError

\* ... and the DataFrame has a row at least
GaveRows(k) == GaveDataFrame(k) /\ alone[k].rows # <<>>

\* the rows the files from k on give when each is processed alone, in the
\* order of their paths
RECURSIVE AloneRows(_)
AloneRows(k) ==
    IF k > Len(alone) THEN <<>>
    ELSE (IF GaveDataFrame(k) THEN alone[k].rows ELSE <<>>) \o AloneRows(k + 1)

\* inside the loop, extract_and_unify gives for a file what it gives for
\* the file alone
SameAsAlone ==
    (bpc = "loop" /\ pc = "done") => df = alone[pdf_files[fileNo]]

\* every file is counted once, and the combined rows are the rows of the
\* files in the order of their paths
TallyAndRows ==
    /\ success_count + fail_count = Len(directory)
    /\ combined.rows = AloneRows(1)

ZeroItemExtraction ==
    /\ pc = "done"
    /\ extraction # Unset
    /\ extraction # None
    /\ (IF source = "UV" THEN extraction.protections ELSE extraction.guarantees) = <<>>

\* extract_and_unify then gives a DataFrame without rows that carries the
\* totals and the payment interval
ZeroItemResult ==
    ZeroItemExtraction =>
        /\ df # None
        /\ df.rows = <<>>
        /\ df.attrs.total_annual_premium = parse_currency(Str(extraction.total_annual_premium))
        /\ df.attrs.total_monthly_premium = parse_currency(Str(extraction.total_monthly_premium))
        /\ df.attrs.payment_interval = unified.payment_interval

\* the loop of process_directory takes the result of such an extraction
CollectZeroItems == bpc = "loop" /\ ZeroItemExtraction /\ pc' = "idle"

\* C14 as stated: a document with its summary page and insured person(s) but
\* no retained item gives an empty record set carrying the totals, not None,
\* and process_directory counts it as a success.
C14_ZeroItemsCountedSuccess ==
    /\ []ZeroItemResult
    /\ [][CollectZeroItems => (success_count' = success_count + 1 /\ fail_count' = fail_count)]_vars

\* C14, amended: such a document gives an empty record set carrying the
\* totals, not None, and process_directory counts it as failed and keeps
\* nothing of it.
C14_ZeroItemsCountedFailure ==
    /\ []ZeroItemResult
    /\ [][CollectZeroItems => (/\ fail_count' = fail_count + 1
                               /\ success_count' = success_count
                               /\ all_dfs' = all_dfs)]_vars

\* a document with totals and no item has gone through the loop
C14_Witness ==
    /\ bpc = "loop"
    /\ pc = "idle"
    /\ fileNo = 2
    /\ fail_count = 1
    /\ extraction # Unset
    /\ extraction # None
    /\ df # None
    /\ df.rows = <<>>
    /\ df.attrs.total_annual_premium # None


(***************************************************************************)
(* Unknown sources (unify_extraction.py, lines 509-587)                    *)
(***************************************************************************)

\* the source argument is a string that names no vendor
UnknownSourceString ==
    requested.t = "str" /\ requested.s \notin {<<"U", "V">>, <<"A", "s", "s", "o", "m", "p", "t", "i", "o", "n">>}

\* C16: for a source string that names no vendor, and for a document in
\* which no source is detected, extract_and_unify returns None, with no
\* record set, and raises nothing into its caller or into process_directory.
C16_UnknownSourceGivesNone ==
    /\ bpc # "raised"
    /\ \A k \in 1..Len(alone) :
           (UnknownSourceString \/ (requested = None /\ detect_source(directory[k]) = "none"))
               => alone[k] = None

\* the part of C16 that holds: a document in which no source is detected
\* gives None
C16_UndetectedGivesNone ==
    \A k \in 1..Len(alone) :
        (requested = None /\ detect_source(directory[k]) = "none") => alone[k] = None


(***************************************************************************)
(* Failed extractions (extract_uv_pdf.py 384-473,                          *)
(* extract_assomption_pdf.py 383-401)                                      *)
(***************************************************************************)

\* the first page of the document that holds the heading the extractor
\* looks for, 0 if none does
AnchorPage ==
    LET pages == Pages(doc)
    IN  FirstPage({p \in 1..Len(pages) :
                     IF source = "UV" THEN Contains(pages[p].text, UvAnchor)
                     ELSE AssomptionAnchor(pages[p].text)})

\* the insured persons written on that page: for Assomption the matches of
\* the insured pattern in its text, for UV its dated lines that match the
\* insured pattern
InsuredOnPage(page) ==
    IF source = "UV"
    THEN LET ls == SortedLines(group_words_by_line(page.words))
         IN  Cardinality({i \in 1..Len(ls) :
                             /\ HasDate(JoinWords(ls[i]))
                             /\ uv_parse_insured_line(JoinWords(ls[i])) # None})
    ELSE Len(parse_all_insured_persons(page.text))

\* the insured persons of the extraction the extractor returned
ExtractedInsured ==
    IF source = "UV" THEN (IF extraction.insured = None THEN 0 ELSE 1)
    ELSE Len(extraction.insured_persons)

RawItem(k) == IF source = "UV" THEN extraction.protections[k] ELSE extraction.guarantees[k]

\* an optional field read from text: None when the text is empty, and never
\* the empty str
ReadFrom(text, v) ==
    /\ Strip(text) = <<>> => v = None
    /\ v # Str(<<>>)

\* the optional fields of item k of the UnifiedExtraction
ItemWithoutValue(k) ==
    LET p == unified.protections[k]
        raw == RawItem(k)
    IN  IF source = "UV"
        THEN /\ p.payment_duration = None
             /\ ReadFrom(raw.insurance_amount, p.coverage_amount)
             /\ ReadFrom(raw.annual_premium, p.policy_premium)
             /\ ReadFrom(raw.monthly_premium, p.monthly_premium)
             /\ ReadFrom(raw.details, p.details)
        ELSE /\ p.monthly_premium = None
             /\ p.details = None
             /\ ReadFrom(raw.capital_assure, p.coverage_amount)
             /\ ReadFrom(raw.prime_annuelle, p.policy_premium)
             /\ ReadFrom(raw.duree_paiement, p.payment_duration)

\* the totals block
TotalsWithoutValue ==
    /\ ReadFrom(extraction.total_annual_premium, unified.total_annual_premium)
    /\ ReadFrom(extraction.total_monthly_premium, unified.total_monthly_premium)
    /\ IF source = "UV" THEN unified.payment_interval = None
       ELSE ReadFrom(extraction.payment_interval, unified.payment_interval)

\* row r of the DataFrame carries the optional fields of its insured person
\* and of its item as the UnifiedExtraction has them
RowAsUnified(r) ==
    LET n == Len(unified.protections)
        i == ((r - 1) \div n) + 1
        k == ((r - 1) % n) + 1
        row == df.rows[r]
    IN  /\ row.birth_date = unified.insured_persons[i].birth_date
        /\ row.coverage_amount = unified.protections[k].coverage_amount
        /\ row.policy_premium = unified.protections[k].policy_premium
        /\ row.monthly_premium = unified.protections[k].monthly_premium
        /\ row.payment_duration = unified.protections[k].payment_duration
        /\ row.details = unified.protections[k].details

\* C17: in every unified record and in the totals block, a field the
\* variant does not supply (UV: payment_duration, payment_interval;
\* Assomption: birth_date, monthly_premium, details) is None, and so is an
\* optional field whose text was empty: never 0, never the empty str.
C17_NoValueIsNone ==
    (pc = "done" /\ unified # Unset) =>
        /\ \A k \in 1..Len(unified.protections) : ItemWithoutValue(k)
        /\ \A i \in 1..Len(unified.insured_persons) :
               IF source = "UV"
               THEN unified.insured_persons[i].birth_date \notin {None, Str(<<>>)}
               ELSE unified.insured_persons[i].birth_date = None
        /\ TotalsWithoutValue
        /\ \A r \in 1..Len(df.rows) : RowAsUnified(r)
        /\ df.attrs.total_annual_premium = unified.total_annual_premium
        /\ df.attrs.total_monthly_premium = unified.total_monthly_premium
        /\ df.attrs.payment_interval = unified.payment_interval

\* an Assomption item with no capital and no payment duration, in a
\* document without totals
C17_Witness ==
    /\ pc = "done"
    /\ source = "Assomption"
    /\ unified # Unset
    /\ Len(df.rows) > 0
    /\ extraction.guarantees[1].capital_assure = <<>>
    /\ extraction.guarantees[1].duree_paiement = <<>>
    /\ extraction.total_annual_premium = <<>>
    /\ df.rows[1].coverage_amount = None
    /\ df.rows[1].payment_duration = None
    /\ df.rows[1].monthly_premium = None
    /\ df.attrs.total_annual_premium = None
    /\ df.attrs.payment_interval = None


(***************************************************************************)
(* Line reconstructor properties                                           *)
(***************************************************************************)

\* the places (line, position) word i of the input is found at
PlacesOf(i) ==
    {pl \in UNION {{<<b, j>> : j \in 1..Len(groupLines[b].words)} : b \in 1..Len(groupLines)} :
        groupLines[pl[1]].words[pl[2]] = groupWords[i]}

\* the line word i is in
GroupLineOf(i) == (CHOOSE pl \in PlacesOf(i) : TRUE)[1]

\* every word handled so far is in one line, at one place, and the lines
\* hold nothing else
WordsPartitioned ==
    /\ \A i \in 1..groupStep : Cardinality(PlacesOf(i)) = 1
    /\ \A i \in (groupStep + 1)..Len(groupWords) : PlacesOf(i) = {}
    /\ \A b \in 1..Len(groupLines) : groupLines[b].words # <<>>
    /\ \A b \in 1..Len(groupLines) : \A j \in 1..Len(groupLines[b].words) :
           \E i \in 1..groupStep : groupLines[b].words[j] = groupWords[i]

\* the key of a line is the rounded top of its first word, and every word
\* of the line is within the tolerance of the key
KeyedByFirstWord ==
    \A b \in 1..Len(groupLines) :
        /\ groupLines[b].key = RoundTop(groupLines[b].words[1].top)
        /\ \A j \in 1..Len(groupLines[b].words) :
               Abs(RoundTop(groupLines[b].words[j].top) - groupLines[b].key) <= Tolerance

\* no word is within the tolerance of the key of a line made before its own
EarliestLine ==
    \A b \in 1..Len(groupLines) : \A j \in 1..Len(groupLines[b].words) :
        \A c \in 1..(b - 1) :
            Abs(groupLines[c].key - RoundTop(groupLines[b].words[j].top)) > Tolerance

\* a turn of the loop keeps the lines made so far, their keys and their
\* words, in their order
LinesKept ==
    /\ Len(groupLines') >= Len(groupLines)
    /\ \A b \in 1..Len(groupLines) :
           /\ groupLines'[b].key = groupLines[b].key
           /\ Len(groupLines'[b].words) >= Len(groupLines[b].words)
           /\ SubSeq(groupLines'[b].words, 1, Len(groupLines[b].words)) = groupLines[b].words

\* C18: group_words_by_line puts every word in exactly one line; the key of
\* a line is the rounded top of the word that opened it and never changes;
\* every word of a line has its rounded top within the tolerance of the key;
\* a word within the tolerance of several keys joins the line made first.
C18_GreedyPartition ==
    /\ [](WordsPartitioned /\ KeyedByFirstWord /\ EarliestLine)
    /\ [][LinesKept]_vars

\* a third word within the tolerance of the keys of two lines has joined
\* the first
C18_Witness ==
    /\ groupStep = 3
    /\ Len(groupLines) = 2
    /\ Abs(groupLines[1].key - RoundTop(groupWords[3].top)) <= Tolerance
    /\ Abs(groupLines[2].key - RoundTop(groupWords[3].top)) <= Tolerance
    /\ groupLines[1].words = <<groupWords[1], groupWords[3]>>
    /\ groupLines[2].words = <<groupWords[2]>>

\* C19: two words whose rounded tops differ by the tolerance at most are in
\* the same line, in whatever order the words arrive.
C19_SameLineWithinTolerance ==
    \A i, j \in 1..groupStep :
        Abs(RoundTop(groupWords[i].top) - RoundTop(groupWords[j].top)) <= Tolerance
            => GroupLineOf(i) = GroupLineOf(j)


(***************************************************************************)
(* Names of insured persons (parse_single_insured, parse_insured_line,     *)
(* UnifiedInsured.insured_name)                                            *)
(***************************************************************************)

\* the person's names are those of a name written as given: the last token
\* the last name, the tokens before it the first name, all of them the
\* insured_name, a single space between two tokens and none around
NamedBy(name, p) ==
    LET tokens == Split(name)
        n == Len(tokens)
    IN  /\ p.last_name = tokens[n]
        /\ p.first_name = Join(<<" ">>, SubSeq(tokens, 1, n - 1))
        /\ n = 1 => p.first_name = <<>>
        /\ insured_name(p) = Join(<<" ">>, tokens)
        /\ insured_name(p)[1] \notin Whitespace
        /\ insured_name(p)[Len(insured_name(p))] \notin Whitespace

\* C20: for every matched insured name of one token or more, in both
\* variants, last_name is the last token, first_name the tokens before it
\* joined by single spaces (empty for a single token), and insured_name all
\* the tokens joined by single spaces, with no space around.
C20_NameTokens ==
    /\ (insResult # Unset /\ Split(insParts.name) # <<>>) =>
           \A k \in 1..Len(insResult.items) : NamedBy(insParts.name, insResult.items[k])
    /\ (insUvResult \notin {Unset, None} /\ Split(insParts.name) # <<>>) =>
           NamedBy(Upper(insParts.name), insUvResult)

\* a name of two tokens with a run of whitespace between them, matched in
\* both writings
C20_Witness ==
    /\ insParts.name = <<"A", "l", " ", " ", "\t", "B", "o">>
    /\ insResult # Unset
    /\ Len(insResult.items) = 1
    /\ insured_name(insResult.items[1]) = <<"A", "l", " ", "B", "o">>
    /\ insUvResult \notin {Unset, None}
    /\ insUvResult.first_name = <<"A", "L">>
    /\ insUvResult.last_name = <<"B", "O">>


(***************************************************************************)
(* End of the UV scan (extract_uv_pdf.py, lines 408-426)                   *)
(***************************************************************************)

\* the scanned lines whose description column holds "Prime totale"
UvTotalsLinesScanned ==
    {k \in 1..(lineNo - 1) :
        Contains(extract_row_by_columns(lines[k], UV_COLUMN_BOUNDARIES)["description"],
                 <<"P", "r", "i", "m", "e", " ", "t", "o", "t", "a", "l", "e">>)}

UvTotalsScanned == source = "UV" /\ UvTotalsLinesScanned # {}

\* the totals are the premium columns of the totals line, and that line is
\* the last one the scan took
UvTotalsHeld ==
    /\ extraction_complete
    /\ UvTotalsLinesScanned = {lineNo - 1}
    /\ LET row == extract_row_by_columns(lines[lineNo - 1], UV_COLUMN_BOUNDARIES)
       IN  /\ total_annual_premium = row["annual_premium"]
           /\ total_monthly_premium = row["monthly_premium"]

ScannedText(k) == JoinWords(lines[k])

\* line k starts with "Police "
PoliceAt(k) == StartsWith(Strip(ScannedText(k)), <<"P", "o", "l", "i", "c", "e", " ">>)

\* a line holding "Prime annuelle totale" has been scanned, or a "Sommaire"
\* line has been scanned after the table was opened
AssomptionDoneSeen ==
    /\ source = "Assomption"
    /\ \E k \in 1..(lineNo - 1) :
          \/ Contains(ScannedText(k), <<"P", "r", "i", "m", "e", " ", "a", "n", "n", "u", "e", "l", "l", "e", " ", "t", "o", "t", "a", "l", "e">>)
          \/ /\ Strip(ScannedText(k)) = <<"S", "o", "m", "m", "a", "i", "r", "e">>
             /\ \E j \in 1..(k - 1) : PoliceAt(j)

\* C22 as stated: in the Assomption parser, once a line holding "Prime
\* annuelle totale" has been scanned, or a "Sommaire" line has closed the
\* table, no later line adds a guarantee.
C22_DoneIsTerminal ==
    [][AssomptionDoneSeen => guarantees' = guarantees]_vars


(***************************************************************************)
(* Start of the Assomption table (extract_assomption_pdf.py, lines 413-444) *)
(***************************************************************************)

\* no line before the line scanned last starts with "Police "
NoPoliceBeforeLast == \A j \in 1..(lineNo - 2) : ~PoliceAt(j)

\* C23: in the Assomption parser, as long as the lines scanned are lines
\* before the first line starting with "Police ", or that line itself, no
\* guarantee has been created, whatever the lines carry in the amount columns.
C23_NothingBeforePolice ==
    (source = "Assomption" /\ NoPoliceBeforeLast) => guarantees = <<>>

\* a row with a capital and a premium scanned before the "Police" line, which
\* is scanned last: no guarantee
C23_Witness ==
    /\ doc.variant = "Assomption"
    /\ ~doc.police
    /\ doc.body = <<"item", "police">>
    /\ pc = "scan"
    /\ lineNo > Len(lines)
    /\ line.branch = "police"
    /\ in_table
    /\ guarantees = <<>>


(***************************************************************************)
(* Item lines (extract_uv_pdf.py 428-463, extract_assomption_pdf.py 446-477) *)
(***************************************************************************)

\* the column text is a number by the rule of the field normalizer
NumericColumn(text) == uv_is_numeric_amount(Str(text))

\* the UV line about to be scanned matches no insured, totals or skip rule,
\* has a description and a numeric coverage amount or annual premium
UvNumericLine ==
    /\ Scanning("UV")
    /\ ~extraction_complete
    /\ UvBranch \notin {"insured", "totals", "skip"}
    /\ uv_desc # <<>>
    /\ \/ NumericColumn(uv_row_text["insurance_amount"])
       \/ NumericColumn(uv_row_text["annual_premium"])

\* the step appends one item built from the columns of the UV line
UvItemAppended ==
    protections' = Append(protections,
                          [protection_name |-> uv_desc,
                           insurance_amount |-> uv_amount,
                           annual_premium |-> uv_annual,
                           monthly_premium |-> uv_monthly,
                           details |-> <<>>])

\* the Assomption line about to be scanned is inside the table, matches no
\* anchor, totals, header or table-end phrase, has a description and a
\* numeric capital or annual premium
AssomptionNumericLine ==
    /\ Scanning("Assomption")
    /\ in_table
    /\ AssomptionBranch = "row"
    /\ Strip(as_row["description"]) # <<>>
    /\ \/ NumericColumn(as_row["capital_assure"])
       \/ NumericColumn(as_row["prime_annuelle"])

\* the step appends one guarantee built from the columns of the line
AssomptionItemAppended ==
    guarantees' = Append(guarantees,
                         [protection_name |-> Strip(as_row["description"]),
                          capital_assure |-> Strip(as_row["capital_assure"]),
                          duree_paiement |-> Strip(as_row["duree_paiement"]),
                          prime_annuelle |-> Strip(as_row["prime_annuelle"])])

\* C24 as stated: in both parsers, every in-table line that matches no skip,
\* anchor or totals phrase, has a non-empty description column and a numeric
\* coverage-amount or annual-premium column appends exactly one new item
\* built from that line's columns.
C24_NumericLineAppendsItem ==
    [][/\ UvNumericLine => UvItemAppended
       /\ AssomptionNumericLine => AssomptionItemAppended]_vars

\* the same, for the UV parser only
C24_NumericLineAppendsItemUV ==
    [][UvNumericLine => UvItemAppended]_vars


(***************************************************************************)
(* Lines appended to an item's name (extract_uv_pdf.py, lines 428-469)     *)
(***************************************************************************)

\* the step changes the product name of a retained item
UvNameExtended ==
    /\ source = "UV"
    /\ \E k \in 1..Len(protections) :
          /\ k <= Len(protections')
          /\ protections'[k].protection_name # protections[k].protection_name

\* C25 as stated: in the UV parser a line's text is appended to a product
\* name only if the line directly before it in the scan created that item or
\* extended it; text after a skipped header line or a rejected placeholder
\* row is never appended to an earlier item.
C25_ContinuationOnlyAfterItem ==
    [][UvNameExtended => UvAfterItem]_vars


(***************************************************************************)
(* Detail lines of the UV table (extract_uv_pdf.py, lines 437-440)         *)
(***************************************************************************)

\* the line about to be scanned has a description starting with "(" and
\* there is a current item
UvParenthesisAfterItem ==
    /\ Scanning("UV")
    /\ ~extraction_complete
    /\ StartsWith(uv_desc, <<"(">>)
    /\ current_protection # 0

DigitsIn(s, a, b, lo, hi) ==
    /\ \A i \in a..b : s[i] \in Digits
    /\ DigitsToNat(SubSeq(s, a, b)) \in lo..hi

\* YYYY-MM-DD with a month in 01..12 and a day in 01..31
WellFormedIso(s) ==
    /\ Len(s) = 10
    /\ DigitsIn(s, 1, 4, 0, 9999)
    /\ s[5] = "-"
    /\ DigitsIn(s, 6, 7, 1, 12)
    /\ s[8] = "-"
    /\ DigitsIn(s, 9, 10, 1, 31)

\* C27 as stated: whenever parse_french_date returns a value, the value is a
\* 4-digit year, "-", a 2-digit month in 01..12, "-", a 2-digit day in
\* 01..31, whatever integers the day and year tokens are.
C27_IsoWellFormed ==
    (dateOut # Unset /\ dateOut # None) => WellFormedIso(dateOut.s)


(***************************************************************************)
(* Arrival order of the words (extract_uv_pdf.py, lines 307-324, 408-413)  *)
(***************************************************************************)

\* the orderings of the same words
Orderings(words) ==
    {[i \in 1..Len(words) |-> words[p[i]]] :
        p \in {q \in [1..Len(words) -> 1..Len(words)] :
                  \A i, j \in 1..Len(words) : q[i] = q[j] => i = j}}

\* C28 as stated: for any two orderings of the same words, group_words_by_line
\* followed by sorting the lines by key and the words by X gives the same
\* sequence of lines with the same words.
C28_OrderIndependent ==
    groupStep = Len(groupWords) =>
        \A o \in Orderings(groupWords) :
            SortedLines(group_words_by_line(o)) = SortedLines(groupLines)


(***************************************************************************)
(* Detection against an explicit source (unify_extraction.py, 509-587)     *)
(***************************************************************************)

\* extract_and_unify, called with a source, has returned a DataFrame
ExplicitResult ==
    /\ requested # None
    /\ pc = "done"
    /\ df # None

\* C29 as stated: for every document for which extract_and_unify with an
\* explicitly given source returns a result, detection finds that source (so
\* that the call without a source runs the same extractor on the same file);
\* and the call without a source runs the extractor detection names.
C29_DetectionAgrees ==
    /\ ExplicitResult => detect_source(doc) = source
    /\ (requested = None /\ pc # "idle") => source = detect_source(doc)


(***************************************************************************)
(* Administrators of the user store (services/auth_manager.py, 150-291)    *)
(***************************************************************************)

\* C30 as stated: after any sequence of create_user, update_user and
\* delete_user calls starting from a store that holds the default admin, the
\* store holds an active user whose role is admin; a call that returns
\* failure leaves the store unchanged.
C30_ActiveAdminAlways ==
    /\ [](ActiveAdmins # {})
    /\ [][(authCall' # None /\ ~authCall'.ok) => users' = users]_vars

====
